---- MODULE Spec2Model ----
(***************************************************************************)
(* A model of the GitHub integration front end: the fetch-based service    *)
(* wrapper GitHubService (services/github.ts), the HTTP exchanges it       *)
(* starts, the backend it talks to, and the page that uses it (GitHubPage  *)
(* with GitHubConfig and GitHubOperations).  The backend is not part of    *)
(* the front end's sources; it is modelled from the API reference.         *)
(***************************************************************************)
EXTENDS Integers, Sequences, FiniteSets, TLC

(***************************************************************************)
(* Bounds of the model.                                                    *)
(***************************************************************************)
\* Number of call sites that use the shared client at the same time (SpecRace).
MaxCalls == 2
\* Number of calls one call site makes one after the other (SpecSession).
MaxSession == 3

(***************************************************************************)
(* JavaScript values, as far as the client looks at them.                  *)
(***************************************************************************)
Undefined == [t |-> "undefined"]
Null == [t |-> "null"]
Str(s) == [t |-> "string", v |-> s]
Bool(b) == [t |-> "boolean", v |-> b]
Arr(a) == [t |-> "array", v |-> a]
Obj(f) == [t |-> "object", v |-> f]

\* ToBoolean: the test that `a || b` applies to a.
Truthy(x) ==
  CASE x.t = "undefined" -> FALSE
    [] x.t = "null" -> FALSE
    [] x.t = "string" -> x.v # ""
    [] x.t = "boolean" -> x.v
    [] OTHER -> TRUE

\* a || b
OrElse(a, b) == IF Truthy(a) THEN a ELSE b

\* String(x), the conversion `new Error(x)` applies to its argument.
RECURSIVE JsString(_)
JsString(x) ==
  CASE x.t = "string" -> x.v
    [] x.t = "boolean" -> IF x.v THEN "true" ELSE "false"
    [] x.t = "null" -> "null"
    [] x.t = "undefined" -> "undefined"
    [] x.t = "object" -> "[object Object]"
    [] x.t = "array" ->
         IF x.v = <<>> THEN ""
         ELSE IF Len(x.v) = 1 THEN JsString(x.v[1])
         ELSE JsString(x.v[1]) \o "," \o JsString(Arr(Tail(x.v)))

\* x.k for a value x that is neither null nor undefined.
GetProp(x, k) ==
  IF x.t = "object" /\ k \in DOMAIN x.v THEN x.v[k] ELSE Undefined

\* Error objects: new Error(m), and the errors the runtime raises itself.
JsError(name, message) == [name |-> name, message |-> message]
NoError == JsError("", "")

(***************************************************************************)
(* JSON text on the wire.                                                  *)
(***************************************************************************)
\* The JSON text that encodes the value x.
JsonText(x) == [json |-> TRUE, value |-> x]
\* A body that is not JSON (an HTML error page, plain text, an empty body).
NotJson == [json |-> FALSE, value |-> Str("<html>")]

\* JSON.stringify(x): properties whose value is undefined are left out.
Stringify(x) ==
  IF x.t = "object"
    THEN JsonText(Obj([k \in {n \in DOMAIN x.v : x.v[n] # Undefined} |-> x.v[k]]))
    ELSE JsonText(x)

\* response.json(): the parsed value, or the SyntaxError of JSON.parse.
ParseJson(body) ==
  IF body.json
    THEN [ok |-> TRUE, value |-> body.value, error |-> NoError]
    ELSE [ok |-> FALSE, value |-> Undefined,
          error |-> JsError("SyntaxError", "Unexpected token < in JSON at position 0")]

(***************************************************************************)
(* fetch: the request it is given and how its promise settles.             *)
(***************************************************************************)
Request(method, url, body) == [method |-> method, url |-> url, body |-> body]
NoBody == [json |-> FALSE, value |-> Undefined]

NotSettled == [kind |-> "pending", status |-> 0, body |-> NoBody, error |-> NoError]
\* fetch resolves with a Response, whatever its status.
Response(status, body) ==
  [kind |-> "response", status |-> status, body |-> body, error |-> NoError]
\* fetch rejects when no response was received at all.
NetworkError ==
  [kind |-> "rejected", status |-> 0, body |-> NoBody,
   error |-> JsError("TypeError", "Failed to fetch")]

\* response.ok
Ok(settled) == settled.kind = "response" /\ settled.status \in 200..299

(***************************************************************************)
(* How an invocation of an async method completes.                         *)
(***************************************************************************)
Pending == [returned |-> FALSE, value |-> Undefined, raised |-> FALSE, error |-> NoError]
Return(x) == [returned |-> TRUE, value |-> x, raised |-> FALSE, error |-> NoError]
Throw(e) == [returned |-> FALSE, value |-> Undefined, raised |-> TRUE, error |-> e]

(***************************************************************************)
(* GitHubService: one pair of definitions per method.  <method>Fetch is    *)
(* the request the method hands to fetch; <method>Settle is the rest of    *)
(* the method, run when the promise of fetch has settled.                  *)
(***************************************************************************)
baseUrl == "http://localhost:8000/github"

\* A throw that ignores the detail of the response: throw new Error(fallback).
ThrowFallback(data, fallback) == Throw(JsError("Error", fallback))

\* throw new Error(data.detail || fallback), for data that is not null.
\* Reading a property of null raises a TypeError instead.
ThrowDetail(data, fallback) ==
  IF data.t \in {"null", "undefined"}
    THEN Throw(JsError("TypeError", "Cannot read properties of null (reading 'detail')"))
    ELSE Throw(JsError("Error", JsString(OrElse(GetProp(data, "detail"), Str(fallback)))))

\* The try block every method but validateToken shares:
\*   const response = await fetch(...); const data = await response.json();
\*   if (!response.ok) throw new Error(data.detail || fallback); return data;
TryBody(settled, fallback) ==
  IF settled.kind = "rejected" THEN Throw(settled.error)
  ELSE LET data == ParseJson(settled.body) IN
    IF ~data.ok THEN Throw(data.error)
    ELSE IF ~Ok(settled) THEN ThrowDetail(data.value, fallback)
    ELSE Return(data.value)

\* A catch block that logs the error and returns a failed result instead of
\* rethrowing: catch (error) { return {success: false, error: error.message}; }
Swallow(completion) ==
  IF completion.raised
    THEN Return(Obj([success |-> Bool(FALSE), error |-> Str(completion.error.message)]))
    ELSE completion

\* catch (error) { console.error(...); throw error; }
Rethrow(completion) == completion

\* A getStatus whose catch block rethrows, as the other methods' do.
StatusCatchRethrows(completion) == completion

\* A getStatus whose catch block returns the fallback and lets the error
\* escape as well.
StatusCatchAndRaise(completion) ==
  IF completion.raised
    THEN [returned |-> TRUE,
          value |-> Obj([configured |-> Bool(FALSE), error |-> Str(completion.error.message)]),
          raised |-> TRUE, error |-> completion.error]
    ELSE completion

\* getStatus: catch (error) { return {configured: false, error: error.message}; }
\* (everything the try block throws is an Error, so 'Unknown error' is never used)
StatusCatch(completion) ==
  IF completion.raised
    THEN Return(Obj([configured |-> Bool(FALSE), error |-> Str(completion.error.message)]))
    ELSE completion

\* A POST that wraps the record it is given: body {data: record}.
JsonPostWrapped(path, x) ==
  Request("POST", baseUrl \o path, Stringify(Obj([data |-> x])))
JsonPost(path, x) == Request("POST", baseUrl \o path, Stringify(x))
Get(path) == Request("GET", baseUrl \o path, NoBody)

\* A configure that sends the token alone.
configureFetchTokenOnly(config) ==
  JsonPost("/configure", Obj([token |-> GetProp(config, "token")]))
configureFetch(config) == JsonPost("/configure", config)
configureSettle(settled) == Rethrow(TryBody(settled, "Failed to configure GitHub"))

\* A getStatus that asks for the path of listRepositories.
getStatusFetchRepositories == Get("/repositories")
getStatusFetch == Get("/status")
getStatusSettle(settled) == StatusCatch(TryBody(settled, "Failed to get GitHub status"))

createRepositoryFetch(repo) == JsonPost("/repositories", repo)
createRepositorySettle(settled) == Rethrow(TryBody(settled, "Failed to create repository"))

listRepositoriesFetch == Get("/repositories")
listRepositoriesSettle(settled) == Rethrow(TryBody(settled, "Failed to list repositories"))

getRepositoryFetch(repoName) == Get("/repositories/" \o repoName)
getRepositorySettle(settled) == Rethrow(TryBody(settled, "Failed to get repository"))

extractAndPushFetch(request) == JsonPost("/extract-and-push", request)
extractAndPushSettle(settled) == Rethrow(TryBody(settled, "Failed to extract and push"))

updateRepositoryFetch(request) == JsonPost("/update-repository", request)
updateRepositorySettle(settled) == Rethrow(TryBody(settled, "Failed to update repository"))

\* A deleteRepository that leaves the method at fetch's default, GET.
deleteRepositoryFetchGet(repoName) == Get("/repositories/" \o repoName)
deleteRepositoryFetch(repoName) ==
  Request("DELETE", baseUrl \o "/repositories/" \o repoName, NoBody)
\* A deleteRepository whose message was copied from getRepository.
deleteRepositorySettleCopied(settled) ==
  Rethrow(TryBody(settled, "Failed to get repository"))
deleteRepositorySettle(settled) ==
  Rethrow(TryBody(settled, "Failed to delete repository"))

\* quickExtract builds the request and returns this.extractAndPush(request).
\* now is the text of new Date().toISOString() at the call.
include_patterns ==
  Arr(<<Str("*.py"), Str("*.js"), Str("*.ts"), Str("*.tsx"), Str("*.jsx"),
        Str("*.html"), Str("*.css"), Str("*.json"), Str("*.md"), Str("*.txt")>>)
exclude_patterns ==
  Arr(<<Str("__pycache__"), Str("*.log"), Str("*.tmp"), Str(".DS_Store"),
        Str("node_modules"), Str(".git")>>)
\* A quickExtract that passes the description on as it is, empty or not.
quickExtractRequestAsGiven(repoName, description, private, now) ==
  Obj([source_dir |-> Str("./generated"),
       repo_name |-> Str(repoName),
       description |-> Str(description),
       private |-> Bool(private),
       include_patterns |-> include_patterns,
       exclude_patterns |-> exclude_patterns])
quickExtractRequest(repoName, description, private, now) ==
  Obj([source_dir |-> Str("./generated"),
       repo_name |-> Str(repoName),
       description |-> OrElse(Str(description),
                              Str("AI-generated code from Cube AI System - " \o now)),
       private |-> Bool(private),
       include_patterns |-> include_patterns,
       exclude_patterns |-> exclude_patterns])
quickExtractFetch(repoName, description, private, now) ==
  extractAndPushFetch(quickExtractRequest(repoName, description, private, now))
quickExtractSettle(settled) == extractAndPushSettle(settled)

\* validateToken: return response.ok, and false when fetch rejects.
validateTokenFetch(token) ==
  JsonPost("/configure", Obj([token |-> Str(token), username |-> Str("test")]))
\* A validateToken that returns the success field of the response body.
validateTokenSettleBySuccess(settled) ==
  IF settled.kind = "rejected" \/ ~ParseJson(settled.body).ok THEN Return(Bool(FALSE))
  ELSE Return(Bool(Ok(settled) /\ Truthy(GetProp(ParseJson(settled.body).value, "success"))))
validateTokenSettle(settled) ==
  IF settled.kind = "rejected" THEN Return(Bool(FALSE)) ELSE Return(Bool(Ok(settled)))

\* The continuation of the method op.
Settle(op, settled) ==
  CASE op = "configure" -> configureSettle(settled)
    [] op = "getStatus" -> getStatusSettle(settled)
    [] op = "createRepository" -> createRepositorySettle(settled)
    [] op = "listRepositories" -> listRepositoriesSettle(settled)
    [] op = "getRepository" -> getRepositorySettle(settled)
    [] op = "extractAndPush" -> extractAndPushSettle(settled)
    [] op = "updateRepository" -> updateRepositorySettle(settled)
    [] op = "deleteRepository" -> deleteRepositorySettle(settled)
    [] op = "quickExtract" -> quickExtractSettle(settled)
    [] op = "validateToken" -> validateTokenSettle(settled)

(***************************************************************************)
(* The backend behind /github, modelled from the API reference: it keeps   *)
(* one configuration, set by POST /configure and reported by GET /status.  *)
(***************************************************************************)
ValidTokens == {"t1"}

BackendInit == [configured |-> FALSE, username |-> ""]

IsConfigure(req) == req.method = "POST" /\ req.url = baseUrl \o "/configure"
IsStatus(req) == req.method = "GET" /\ req.url = baseUrl \o "/status"
IsList(req) == req.method = "GET" /\ req.url = baseUrl \o "/repositories"

\* The body of the request has a token and a username; a request without
\* them is rejected and changes nothing.
HasCredentials(req) ==
  /\ GetProp(req.body.value, "token").t = "string"
  /\ GetProp(req.body.value, "username").t = "string"

\* POST /configure with blank token and username clears the configuration;
\* with a token GitHub accepts it stores the username; otherwise it changes
\* nothing.
BackendAfter(b, req) ==
  IF ~IsConfigure(req) \/ ~HasCredentials(req) THEN b
  ELSE LET token == GetProp(req.body.value, "token").v
           username == GetProp(req.body.value, "username").v
       IN IF token = "" /\ username = ""
            THEN [configured |-> FALSE, username |-> ""]
          ELSE IF token \in ValidTokens
            THEN [configured |-> TRUE, username |-> username]
          ELSE b

\* The responses the backend may give to req in state b.
BackendAnswers(b, req) ==
  IF IsConfigure(req) /\ ~HasCredentials(req) THEN
    {Response(422, JsonText(Obj([detail |->
                                   Arr(<<Obj([msg |-> Str("field required")])>>)])))}
  ELSE IF IsConfigure(req) THEN
    LET token == GetProp(req.body.value, "token").v
        username == GetProp(req.body.value, "username").v
    IN IF token = "" /\ username = ""
         THEN {Response(200, JsonText(Obj([success |-> Bool(TRUE),
                                           message |-> Str("GitHub configuration cleared")])))}
       ELSE IF token \in ValidTokens
         THEN {Response(200, JsonText(Obj([success |-> Bool(TRUE),
                                           message |-> Str("GitHub configured successfully"),
                                           user |-> Str(username),
                                           username |-> Str(username)])))}
       ELSE {Response(400, JsonText(Obj([detail |-> Str("Invalid GitHub token")]))),
             Response(200, JsonText(Obj([success |-> Bool(FALSE),
                                         error |-> Str("Invalid GitHub token")]))),
             Response(200, JsonText(Obj([success |-> Bool(FALSE)])))}
  ELSE IF IsStatus(req) THEN
    IF b.configured
      THEN {Response(200, JsonText(Obj([configured |-> Bool(TRUE),
                                        username |-> Str(b.username),
                                        user |-> Str(b.username),
                                        message |-> Str("GitHub integration is active")])))}
      ELSE {Response(200, JsonText(Obj([configured |-> Bool(FALSE),
                                        message |-> Str("GitHub not configured")])))}
  ELSE IF IsList(req) THEN
    {Response(200, JsonText(Obj([success |-> Bool(TRUE), repositories |-> Arr(<<>>)]))),
     Response(200, JsonText(Obj([success |-> Bool(TRUE),
                                 repositories |-> Arr(<<Obj([name |-> Str("r1")])>>)]))),
     Response(200, JsonText(Obj([success |-> Bool(TRUE)]))),
     Response(200, JsonText(Obj([success |-> Bool(FALSE),
                                 error |-> Str("GitHub API error")])))}
  ELSE {Response(200, JsonText(Obj([success |-> Bool(TRUE), message |-> Str("done")]))),
        Response(200, JsonText(Obj([success |-> Bool(FALSE),
                                    error |-> Str("GitHub API error")]))),
        Response(200, JsonText(Obj([success |-> Bool(FALSE)])))}

\* Exchanges that fail without the backend's handler running: an error status
\* with or without a detail field, a body that is not JSON, no response at all.
ErrorBodies ==
  {NotJson,
   JsonText(Null),
   JsonText(Obj([error |-> Str("boom")])),
   JsonText(Obj([detail |-> Str("")])),
   JsonText(Obj([detail |-> Str("Source directory does not exist")])),
   JsonText(Obj([detail |-> Arr(<<Obj([msg |-> Str("field required")])>>)]))}
ErrorStatuses == {400, 500}
Failures ==
  {NetworkError, Response(200, NotJson)}
    \cup {Response(status, body) : status \in ErrorStatuses, body \in ErrorBodies}
\* The two kinds of failure, for the runs with several calls.
CommonFailures ==
  {NetworkError,
   Response(400, JsonText(Obj([detail |-> Str("Source directory does not exist")])))}

(***************************************************************************)
(* The page.  GitHubPage renders the two tabs and, under them, GitHubConfig *)
(* or GitHubOperations.  A handler runs up to its await in one step and    *)
(* resumes, when the awaited call has completed, in another.  What a       *)
(* handler sets is the state of the component instance that started it;    *)
(* it is dropped when that instance is no longer mounted.                  *)
(***************************************************************************)
\* Number of handler invocations that can wait for a call at the same time.
MaxTasks == 2
\* Number of clicks and inputs the user makes on the page.
MaxEvents == 3

\* !s.trim(), for the texts typed in this model.
Blank(s) == s \in {"", " "}

\* useState(...) of the three components.
GitHubPageState ==
  [activeTab |-> "config", githubStatus |-> Obj([configured |-> Bool(FALSE)])]
GitHubConfigState ==
  [token |-> "", username |-> "", status |-> Null,
   loading |-> FALSE, error |-> Null, success |-> Null]
GitHubOperationsState ==
  [repositories |-> Arr(<<>>), loading |-> FALSE, error |-> Null, success |-> Null,
   repoName |-> "", repoDescription |-> "", isPrivate |-> FALSE,
   sourceDir |-> "./generated", extractRepoName |-> "", extractDescription |-> "",
   extractPrivate |-> FALSE]

\* A handler invocation: the async functions that wait, outermost first, the
\* component that started it, whether that instance is still mounted, and the
\* repository name its closure holds.  cleared is not state of the program: it
\* keeps, for the properties, the success message that was on display when
\* the handler was invoked and that the handler has removed (Null when it
\* has removed none).  Nor are issued and overtaken: issued orders the
\* listRepositories requests that are under way at the same time (0 when the
\* task awaits no such request), and overtaken says that a list request
\* issued after the one the task awaits has already put its list on display.
NoTask ==
  [stack |-> <<>>, component |-> "none", live |-> FALSE, repoName |-> "",
   cleared |-> Null, issued |-> 0, overtaken |-> FALSE]
Task(component, repoName) ==
  [stack |-> <<>>, component |-> component, live |-> TRUE, repoName |-> repoName,
   cleared |-> Null, issued |-> 0, overtaken |-> FALSE]

\* Task j of ts has just made a call: when it is a listRepositories call it
\* is the latest of those under way.
Stamp(ts, j) ==
  LET others == {ts[k].issued : k \in DOMAIN ts \ {j}}
      latest == CHOOSE n \in others \cup {0} : \A m \in others : m <= n
  IN IF ts[j].live /\ ts[j].stack[Len(ts[j].stack)] = "loadRepositories"
       THEN [ts EXCEPT ![j].issued = latest + 1, ![j].overtaken = FALSE]
       ELSE [ts EXCEPT ![j].issued = 0, ![j].overtaken = FALSE]

\* The list request issued as number n has put its list on display: the
\* list requests of ts issued before it are overtaken.
Overtake(ts, n) ==
  [k \in DOMAIN ts |->
     IF 0 < ts[k].issued /\ ts[k].issued < n
       THEN [ts[k] EXCEPT !.overtaken = TRUE] ELSE ts[k]]

\* The state setters of the task's component: u is the state of the three
\* components, changes the fields set.
Set(u, task, changes) ==
  IF task.live THEN [u EXCEPT ![task.component] = changes @@ @] ELSE u

\* How a handler's step ends: it has returned, or it waits for a call that
\* the async function frame has made.
Finished(u) == [u |-> u, await |-> <<>>]
Awaits(u, frame, op, args, request) ==
  [u |-> u, await |-> <<[frame |-> frame, op |-> op, args |-> args, request |-> request]>>]

\* status.configured as a condition.
Configured(status) == Truthy(GetProp(status, "configured"))

\* GitHubPage.checkGitHubStatus after its await.
checkGitHubStatusResumes(u, task, result) ==
  IF result.returned
    THEN Set(u, task, [githubStatus |-> result.value])
    ELSE Set(u, task, [githubStatus |-> Obj([configured |-> Bool(FALSE),
                                             error |-> Str("Failed to check status")])])

\* A handleConfigChange that stores the status and stays on the tab.
handleConfigChangeStays(u, status) ==
  [u EXCEPT !.page.githubStatus = status]
\* GitHubPage.handleConfigChange, the onConfigChange of GitHubConfig.
handleConfigChange(u, status) ==
  [u EXCEPT !.page =
     [githubStatus |-> status,
      activeTab |-> IF Configured(status) THEN "operations" ELSE @.activeTab]]

\* The onConfigChange prop of GitHubConfig.  GitHubPage passes its
\* handleConfigChange; where GitHubConfig is rendered without GitHubPage
\* (activeTab "none") the host keeps the status it is told.
onConfigChange(u, status) ==
  IF u.page.activeTab = "none"
    THEN [u EXCEPT !.page.githubStatus = status]
    ELSE handleConfigChange(u, status)

\* GitHubConfig.checkStatus up to its await.
checkStatusStarts(u, task) ==
  Awaits(Set(u, task, [loading |-> TRUE]), "checkStatus", "getStatus", <<>>, getStatusFetch)

\* GitHubConfig.checkStatus after its await.
checkStatusResumes(u, task, result) ==
  LET shown ==
        IF result.returned
          THEN onConfigChange(Set(u, task, [status |-> result.value]), result.value)
          ELSE Set(u, task, [error |-> Str("Failed to check GitHub status")])
  IN Set(shown, task, [loading |-> FALSE])

\* What reading result.success raises when result is null.
NullResult(result) == result.returned /\ result.value.t \in {"null", "undefined"}
ReadOfNull == "Cannot read properties of null (reading 'success')"

\* The message a handler's catch block shows: error.message.
Caught(result) == IF result.raised THEN Str(result.error.message) ELSE Str(ReadOfNull)

\* A handleConfigure without the check of its two fields.
handleConfigureStartsUnchecked(u, task) ==
  LET config == Obj([token |-> Str(u.config.token),
                     username |-> Str(u.config.username)])
  IN Awaits(Set(u, task, [loading |-> TRUE, error |-> Null, success |-> Null]),
            "handleConfigure", "configure", <<config>>, configureFetch(config))
\* GitHubConfig.handleConfigure up to its await.
handleConfigureStarts(u, task) ==
  IF Blank(u.config.token) \/ Blank(u.config.username)
    THEN Finished(Set(u, task, [error |-> Str("Please provide both token and username")]))
    ELSE LET config == Obj([token |-> Str(u.config.token),
                            username |-> Str(u.config.username)])
         IN Awaits(Set(u, task, [loading |-> TRUE, error |-> Null, success |-> Null]),
                   "handleConfigure", "configure", <<config>>, configureFetch(config))

\* A handleConfigure that takes every returned result for a success.
handleConfigureTrusting(u, task, result) ==
  IF result.raised \/ NullResult(result)
    THEN Finished(Set(u, task, [error |-> Caught(result), loading |-> FALSE]))
    ELSE checkStatusStarts(
           Set(u, task, [success |-> Str("GitHub configured successfully!"),
                         token |-> "", username |-> ""]), task)

\* GitHubConfig.handleConfigure after await githubService.configure(...).
handleConfigureResumes(u, task, result) ==
  IF result.raised \/ NullResult(result)
    THEN Finished(Set(u, task, [error |-> Caught(result), loading |-> FALSE]))
  ELSE IF Truthy(GetProp(result.value, "success"))
    THEN checkStatusStarts(
           Set(u, task, [success |-> Str("GitHub configured successfully!"),
                         token |-> "", username |-> ""]), task)
  ELSE Finished(Set(u, task,
         [error |-> OrElse(GetProp(result.value, "error"), Str("Configuration failed")),
          loading |-> FALSE]))

\* GitHubConfig.handleDisconnect up to its await.
handleDisconnectStarts(u, task) ==
  LET config == Obj([token |-> Str(""), username |-> Str("")])
  IN Awaits(Set(u, task, [loading |-> TRUE]),
            "handleDisconnect", "configure", <<config>>, configureFetch(config))

\* A handleDisconnect that shows the disconnected state whether or not its
\* call raised.
handleDisconnectResumesRegardless(u, task, result) ==
  LET disconnected == Obj([configured |-> Bool(FALSE),
                           message |-> Str("GitHub disconnected")])
  IN Finished(Set(onConfigChange(Set(u, task, [status |-> disconnected]),
                                 disconnected),
                  task,
                  [success |-> Str("GitHub disconnected successfully"),
                   loading |-> FALSE]))
\* GitHubConfig.handleDisconnect after await githubService.configure(...): the
\* result of the call is not looked at.
handleDisconnectResumes(u, task, result) ==
  LET disconnected == Obj([configured |-> Bool(FALSE),
                           message |-> Str("GitHub disconnected")])
  IN IF result.raised
       THEN Finished(Set(u, task, [error |-> Str("Failed to disconnect GitHub"),
                                   loading |-> FALSE]))
       ELSE Finished(Set(onConfigChange(Set(u, task, [status |-> disconnected]),
                                        disconnected),
                         task,
                         [success |-> Str("GitHub disconnected successfully"),
                          loading |-> FALSE]))

\* The finally block of a handler that awaited checkStatus or loadRepositories.
Finally(u, task) == Set(u, task, [loading |-> FALSE])

\* GitHubOperations.loadRepositories up to its await.
loadRepositoriesStarts(u, task) ==
  Awaits(Set(u, task, [loading |-> TRUE]),
         "loadRepositories", "listRepositories", <<>>, listRepositoriesFetch)

\* A loadRepositories whose catch block empties the list as well.
loadRepositoriesResumesEmptying(u, task, result) ==
  LET shown ==
        IF result.raised \/ NullResult(result)
          THEN Set(u, task, [error |-> Str("Failed to load repositories"),
                             repositories |-> Arr(<<>>)])
        ELSE IF Truthy(GetProp(result.value, "success"))
                  /\ Truthy(GetProp(result.value, "repositories"))
          THEN Set(u, task, [repositories |-> GetProp(result.value, "repositories")])
        ELSE u
  IN Set(shown, task, [loading |-> FALSE])
\* GitHubOperations.loadRepositories after its await.
loadRepositoriesResumes(u, task, result) ==
  LET shown ==
        IF result.raised \/ NullResult(result)
          THEN Set(u, task, [error |-> Str("Failed to load repositories")])
        ELSE IF Truthy(GetProp(result.value, "success"))
                  /\ Truthy(GetProp(result.value, "repositories"))
          THEN Set(u, task, [repositories |-> GetProp(result.value, "repositories")])
        ELSE u
  IN Set(shown, task, [loading |-> FALSE])

\* GitHubOperations.handleCreateRepository up to its await.
handleCreateRepositoryStarts(u, task) ==
  IF Blank(u.operations.repoName)
    THEN Finished(Set(u, task, [error |-> Str("Please provide a repository name")]))
    ELSE LET repo == Obj([name |-> Str(u.operations.repoName),
                          description |-> Str(u.operations.repoDescription),
                          private |-> Bool(u.operations.isPrivate)])
         IN Awaits(Set(u, task, [loading |-> TRUE, error |-> Null, success |-> Null]),
                   "handleCreateRepository", "createRepository", <<repo>>,
                   createRepositoryFetch(repo))

\* A handleCreateRepository without its finally block.
handleCreateRepositoryResumesStuck(u, task, result) ==
  IF result.raised \/ NullResult(result)
    THEN Finished(Set(u, task, [error |-> Caught(result)]))
  ELSE IF Truthy(GetProp(result.value, "success"))
    THEN loadRepositoriesStarts(
           Set(u, task,
               [success |-> Str("Repository \"" \o task.repoName
                                  \o "\" created successfully!"),
                repoName |-> "", repoDescription |-> "", isPrivate |-> FALSE]), task)
  ELSE Finished(Set(u, task,
         [error |-> OrElse(GetProp(result.value, "error"),
                           Str("Failed to create repository"))]))
\* GitHubOperations.handleCreateRepository after await createRepository(...).
handleCreateRepositoryResumes(u, task, result) ==
  IF result.raised \/ NullResult(result)
    THEN Finished(Set(u, task, [error |-> Caught(result), loading |-> FALSE]))
  ELSE IF Truthy(GetProp(result.value, "success"))
    THEN loadRepositoriesStarts(
           Set(u, task,
               [success |-> Str("Repository \"" \o task.repoName
                                  \o "\" created successfully!"),
                repoName |-> "", repoDescription |-> "", isPrivate |-> FALSE]), task)
  ELSE Finished(Set(u, task,
         [error |-> OrElse(GetProp(result.value, "error"),
                           Str("Failed to create repository")),
          loading |-> FALSE]))

\* GitHubOperations.handleExtractAndPush up to its await; now is the text of
\* new Date().toISOString().
handleExtractAndPushStarts(u, task, now) ==
  IF Blank(u.operations.extractRepoName)
    THEN Finished(Set(u, task, [error |-> Str("Please provide a repository name")]))
    ELSE LET request ==
               Obj([source_dir |-> Str(u.operations.sourceDir),
                    repo_name |-> Str(u.operations.extractRepoName),
                    description |->
                      OrElse(Str(u.operations.extractDescription),
                             Str("AI-generated code from Cube AI System - " \o now)),
                    private |-> Bool(u.operations.extractPrivate)])
         IN Awaits(Set(u, task, [loading |-> TRUE, error |-> Null, success |-> Null]),
                   "handleExtractAndPush", "extractAndPush", <<request>>,
                   extractAndPushFetch(request))

\* GitHubOperations.handleExtractAndPush after await extractAndPush(...).
handleExtractAndPushResumes(u, task, result) ==
  IF result.raised \/ NullResult(result)
    THEN Finished(Set(u, task, [error |-> Caught(result), loading |-> FALSE]))
  ELSE IF Truthy(GetProp(result.value, "success"))
    THEN loadRepositoriesStarts(
           Set(u, task,
               [success |-> Str("Code extracted and pushed to \"" \o task.repoName
                                  \o "\" successfully!"),
                extractRepoName |-> "", extractDescription |-> "",
                extractPrivate |-> FALSE]), task)
  ELSE Finished(Set(u, task,
         [error |-> OrElse(GetProp(result.value, "error"),
                           Str("Failed to extract and push code")),
          loading |-> FALSE]))

\* new Date().toISOString().slice(0, 19).replace(/:/g, '-')
FileStamp(now) ==
  CASE now = "2025-01-01T00:00:00.000Z" -> "2025-01-01T00-00-00"
    [] OTHER -> now

\* GitHubOperations.handleQuickExtract: it fills in the form and calls nothing.
handleQuickExtractRuns(u, task, now) ==
  Finished(Set(u, task,
    [extractRepoName |-> "ai-generated-" \o FileStamp(now),
     extractDescription |-> "AI-generated code from Cube AI System - " \o now]))

\* A handleDeleteRepository that does not look at the answer to confirm(...).
handleDeleteRepositoryUnconfirmed(u, task, confirmed) ==
  Awaits(Set(u, task, [loading |-> TRUE, error |-> Null, success |-> Null]),
         "handleDeleteRepository", "deleteRepository", <<Str(task.repoName)>>,
         deleteRepositoryFetch(task.repoName))
\* GitHubOperations.handleDeleteRepository(repoName) up to its await;
\* confirmed is the answer to confirm(...).
handleDeleteRepositoryStarts(u, task, confirmed) ==
  IF ~confirmed THEN Finished(u)
  ELSE Awaits(Set(u, task, [loading |-> TRUE, error |-> Null, success |-> Null]),
              "handleDeleteRepository", "deleteRepository", <<Str(task.repoName)>>,
              deleteRepositoryFetch(task.repoName))

\* A handleDeleteRepository that reloads the list whatever the call returned.
handleDeleteRepositoryResumesReloading(u, task, result) ==
  IF result.raised \/ NullResult(result)
    THEN Finished(Set(u, task, [error |-> Caught(result), loading |-> FALSE]))
  ELSE IF Truthy(GetProp(result.value, "success"))
    THEN loadRepositoriesStarts(
           Set(u, task,
               [success |-> Str("Repository \"" \o task.repoName
                                  \o "\" deleted successfully!")]), task)
  ELSE loadRepositoriesStarts(
         Set(u, task,
             [error |-> OrElse(GetProp(result.value, "error"),
                               Str("Failed to delete repository"))]), task)
\* GitHubOperations.handleDeleteRepository after await deleteRepository(...).
handleDeleteRepositoryResumes(u, task, result) ==
  IF result.raised \/ NullResult(result)
    THEN Finished(Set(u, task, [error |-> Caught(result), loading |-> FALSE]))
  ELSE IF Truthy(GetProp(result.value, "success"))
    THEN loadRepositoriesStarts(
           Set(u, task,
               [success |-> Str("Repository \"" \o task.repoName
                                  \o "\" deleted successfully!")]), task)
  ELSE Finished(Set(u, task,
         [error |-> OrElse(GetProp(result.value, "error"),
                           Str("Failed to delete repository")),
          loading |-> FALSE]))

\* The task resumes: the innermost async function continues with the result
\* of the call it awaited and, when it returns, the function that awaited it
\* runs its finally block.
Continue(u, task, result) ==
  CASE task.stack = <<"checkGitHubStatus">> ->
         Finished(checkGitHubStatusResumes(u, task, result))
    [] task.stack = <<"checkStatus">> ->
         Finished(checkStatusResumes(u, task, result))
    [] task.stack = <<"handleConfigure">> ->
         handleConfigureResumes(u, task, result)
    [] task.stack = <<"handleDisconnect">> ->
         handleDisconnectResumes(u, task, result)
    [] task.stack = <<"handleConfigure", "checkStatus">> ->
         Finished(Finally(checkStatusResumes(u, task, result), task))
    [] task.stack = <<"loadRepositories">> ->
         Finished(loadRepositoriesResumes(u, task, result))
    [] task.stack = <<"handleCreateRepository">> ->
         handleCreateRepositoryResumes(u, task, result)
    [] task.stack = <<"handleExtractAndPush">> ->
         handleExtractAndPushResumes(u, task, result)
    [] task.stack = <<"handleDeleteRepository">> ->
         handleDeleteRepositoryResumes(u, task, result)
    [] Len(task.stack) = 2 /\ task.stack[2] = "loadRepositories" ->
         Finished(Finally(loadRepositoriesResumes(u, task, result), task))

\* What React does with the new state: GitHubPage mounts the component of the
\* active tab and unmounts the other, whose state is gone; the effect of a
\* component that mounts runs (checkStatus in GitHubConfig, loadRepositories
\* in GitHubOperations when githubStatus.configured); the effect of a
\* GitHubOperations that stays mounted runs again when githubStatus.configured
\* has changed.
Render(old, new) ==
  IF new.page.activeTab # old.page.activeTab THEN
    IF new.page.activeTab = "operations"
      THEN [u |-> [new EXCEPT !.config = GitHubConfigState,
                              !.operations = GitHubOperationsState],
            unmounted |-> "config",
            effect |-> IF Configured(new.page.githubStatus)
                         THEN <<"loadRepositories">> ELSE <<>>]
      ELSE [u |-> [new EXCEPT !.operations = GitHubOperationsState,
                              !.config = GitHubConfigState],
            unmounted |-> "operations",
            effect |-> <<"checkStatus">>]
  ELSE IF /\ new.page.activeTab = "operations"
          /\ GetProp(new.page.githubStatus, "configured")
               # GetProp(old.page.githubStatus, "configured")
          /\ Configured(new.page.githubStatus)
    THEN [u |-> new, unmounted |-> "none", effect |-> <<"loadRepositories">>]
  ELSE [u |-> new, unmounted |-> "none", effect |-> <<>>]

\* The task of an effect and the part of it that runs at once.
EffectTask(effect) ==
  IF effect = "checkStatus" THEN Task("config", "") ELSE Task("operations", "")
EffectStarts(u, effect) ==
  IF effect = "checkStatus"
    THEN checkStatusStarts(u, EffectTask(effect))
    ELSE loadRepositoriesStarts(u, EffectTask(effect))

(***************************************************************************)
(* State: the invocations of client methods by the call sites, each with   *)
(* the requests it has handed to fetch, how its fetch settled and how the  *)
(* invocation completed; the backend; and, when the page is rendered, the  *)
(* state of GitHubPage, GitHubConfig and GitHubOperations with the handler *)
(* invocations (tasks) that wait for a call, and the number of user events.*)
(***************************************************************************)
VARIABLES calls, backend, tasks, gitHubPage, gitHubConfig, gitHubOperations, events

vars == <<calls, backend, tasks, gitHubPage, gitHubConfig, gitHubOperations, events>>
\* What is rendered, and the number of clicks and inputs so far.
page == <<tasks, gitHubPage, gitHubConfig, gitHubOperations, events>>

Idle ==
  [op |-> "none", args |-> <<>>, pc |-> "idle", sent |-> <<>>,
   settled |-> NotSettled, result |-> Pending]

\* An invocation of the method op that waits for its fetch.
Awaiting(op, args, sent) ==
  [op |-> op, args |-> args, pc |-> "awaitFetch", sent |-> sent,
   settled |-> NotSettled, result |-> Pending]

\* A client that keeps the request it builds in a field of the shared
\* instance: a call made while another is under way sends that one's request.
InvokeSharedRequest(i, op, args, request) ==
  /\ calls[i].pc \in {"idle", "done"}
  /\ LET others == {j \in DOMAIN calls : j # i /\ calls[j].pc = "awaitFetch"}
     IN calls' = [calls EXCEPT ![i] =
          Awaiting(op, args,
                   <<IF others = {} THEN request
                     ELSE calls[CHOOSE j \in others : TRUE].sent[1]>>)]
  /\ UNCHANGED <<backend, page>>
\* The method op is invoked with args at call site i and runs up to its
\* await fetch(...): the request is on its way.  A call site starts its next
\* call when the one before has completed.
Invoke(i, op, args, request) ==
  /\ calls[i].pc \in {"idle", "done"}
  /\ calls' = [calls EXCEPT ![i] = Awaiting(op, args, <<request>>)]
  /\ UNCHANGED <<backend, page>>

configure(i, config) == Invoke(i, "configure", <<config>>, configureFetch(config))
getStatus(i) == Invoke(i, "getStatus", <<>>, getStatusFetch)
createRepository(i, repo) ==
  Invoke(i, "createRepository", <<repo>>, createRepositoryFetch(repo))
listRepositories(i) == Invoke(i, "listRepositories", <<>>, listRepositoriesFetch)
getRepository(i, repoName) ==
  Invoke(i, "getRepository", <<Str(repoName)>>, getRepositoryFetch(repoName))
extractAndPush(i, request) ==
  Invoke(i, "extractAndPush", <<request>>, extractAndPushFetch(request))
updateRepository(i, request) ==
  Invoke(i, "updateRepository", <<request>>, updateRepositoryFetch(request))
deleteRepository(i, repoName) ==
  Invoke(i, "deleteRepository", <<Str(repoName)>>, deleteRepositoryFetch(repoName))
quickExtract(i, repoName, description, private, now) ==
  Invoke(i, "quickExtract", <<Str(repoName), Str(description), Bool(private)>>,
         quickExtractFetch(repoName, description, private, now))
validateToken(i, token) ==
  Invoke(i, "validateToken", <<Str(token)>>, validateTokenFetch(token))

\* The request call i has in flight.
InFlight(i) == calls[i].sent[Len(calls[i].sent)]

\* The backend processes the request of call i and its response arrives.
BackendHandles(i) ==
  /\ calls[i].pc = "awaitFetch"
  /\ backend' = BackendAfter(backend, InFlight(i))
  /\ \E r \in BackendAnswers(backend, InFlight(i)) :
       calls' = [calls EXCEPT ![i].pc = "resume", ![i].settled = r]
  /\ UNCHANGED page

\* The backend processes the configure request of call i, but its response
\* is lost on the way back.
ResponseLost(i) ==
  /\ calls[i].pc = "awaitFetch"
  /\ IsConfigure(InFlight(i))
  /\ backend' = BackendAfter(backend, InFlight(i))
  /\ calls' = [calls EXCEPT ![i].pc = "resume", ![i].settled = NetworkError]
  /\ UNCHANGED page

\* The exchange of call i fails before the backend's handler runs.
ExchangeFails(i, failure) ==
  /\ calls[i].pc = "awaitFetch"
  /\ calls' = [calls EXCEPT ![i].pc = "resume", ![i].settled = failure]
  /\ UNCHANGED <<backend, page>>

\* A client that tries once more when the exchange has failed.
ResumeRetrying(i) ==
  /\ calls[i].pc = "resume"
  /\ calls' = IF ~Ok(calls[i].settled) /\ Len(calls[i].sent) = 1
               THEN [calls EXCEPT ![i] = Awaiting(@.op, @.args, Append(@.sent, @.sent[1]))]
               ELSE [calls EXCEPT ![i].pc = "done",
                                  ![i].result = Settle(calls[i].op, calls[i].settled)]
  /\ UNCHANGED <<backend, page>>
\* The method of call i resumes after its await and runs to its end.
Resume(i) ==
  /\ calls[i].pc = "resume"
  /\ calls' = [calls EXCEPT ![i].pc = "done",
                            ![i].result = Settle(calls[i].op, calls[i].settled)]
  /\ UNCHANGED <<backend, page>>

(***************************************************************************)
(* The page: user events, and handlers that resume.                        *)
(***************************************************************************)
\* The state of the three components.
Components ==
  [page |-> gitHubPage, config |-> gitHubConfig, operations |-> gitHubOperations]

\* No page is rendered: the client is called directly.
NotRendered ==
  /\ events = 0
  /\ tasks = [i \in DOMAIN calls |-> NoTask]
  /\ gitHubPage = GitHubPageState
  /\ gitHubConfig = GitHubConfigState
  /\ gitHubOperations = GitHubOperationsState

\* The step of a handler ends with the component state u, the tasks tasks1
\* and the calls calls1: React renders, the tasks of an unmounted component
\* go on without it, and an effect that runs starts its call.
Commit(u, tasks1, calls1) ==
  LET rendered == Render(Components, u)
      kept == [j \in DOMAIN tasks1 |->
                 IF tasks1[j].component = rendered.unmounted
                   THEN [tasks1[j] EXCEPT !.live = FALSE, !.cleared = Null,
                                          !.issued = 0, !.overtaken = FALSE]
                   ELSE tasks1[j]]
      free == {j \in DOMAIN kept : kept[j].stack = <<>>}
      slot == CHOOSE j \in free : \A k \in free : j <= k
  IN IF rendered.effect = <<>>
       THEN /\ tasks' = kept
            /\ calls' = calls1
            /\ gitHubPage' = rendered.u.page
            /\ gitHubConfig' = rendered.u.config
            /\ gitHubOperations' = rendered.u.operations
       ELSE LET started == EffectStarts(rendered.u, rendered.effect[1])
                call == started.await[1]
            IN /\ free # {}
               /\ tasks' = Stamp([kept EXCEPT ![slot] =
                    [EffectTask(rendered.effect[1]) EXCEPT !.stack = <<call.frame>>]],
                                 slot)
               /\ calls' = [calls1 EXCEPT ![slot] =
                    Awaiting(call.op, call.args, <<call.request>>)]
               /\ gitHubPage' = started.u.page
               /\ gitHubConfig' = started.u.config
               /\ gitHubOperations' = started.u.operations

\* One more click or input of the user.
UserEvent == events < MaxEvents /\ events' = events + 1

\* A handler is invoked as task and runs until out: it has returned, or it
\* waits for the call it made.
Invoked(task, out) ==
  LET free == {j \in DOMAIN tasks : tasks[j].stack = <<>>}
      slot == CHOOSE j \in free : \A k \in free : j <= k
  IN /\ IF out.await = <<>>
          THEN Commit(out.u, tasks, calls)
          ELSE /\ free # {}
               /\ Commit(out.u,
                    Stamp([tasks EXCEPT ![slot] =
                       [task EXCEPT
                          !.stack = <<out.await[1].frame>>,
                          !.cleared =
                            IF out.u[task.component].success
                                 = Components[task.component].success
                              THEN Null ELSE Components[task.component].success]],
                          slot),
                    [calls EXCEPT ![slot] =
                       Awaiting(out.await[1].op, out.await[1].args,
                                <<out.await[1].request>>)])
     /\ UNCHANGED backend
     /\ UserEvent

\* What is on the screen.  GitHubConfig shows a spinner while loading, then
\* the form, or the connected view (Refresh, Disconnect) when
\* status.configured.  Under GitHubPage every status with configured = true
\* that checkStatus stores is also passed to handleConfigChange, which leaves
\* the tab, so that the connected view is never on the screen here.
ConfigForm ==
  /\ gitHubPage.activeTab # "operations"
  /\ ~gitHubConfig.loading
  /\ ~Configured(gitHubConfig.status)
ConnectedView ==
  /\ gitHubPage.activeTab # "operations"
  /\ ~gitHubConfig.loading
  /\ Configured(gitHubConfig.status)
\* A GitHubOperations that shows its panel whatever status it was given.
OperationsPanelAlways == gitHubPage.activeTab = "operations"
OperationsPanel ==
  /\ gitHubPage.activeTab = "operations"
  /\ Configured(gitHubPage.githubStatus)
\* The names of the repositories listed.
Listed ==
  {GetProp(gitHubOperations.repositories.v[n], "name").v :
     n \in DOMAIN gitHubOperations.repositories.v}

\* A click on a tab; the Operations tab is disabled until GitHub is configured.
setActiveTab(tab) ==
  /\ gitHubPage.activeTab \in {"config", "operations"}
  /\ tab # gitHubPage.activeTab
  /\ tab = "operations" => Configured(gitHubPage.githubStatus)
  /\ Commit([Components EXCEPT !.page.activeTab = tab], tasks, calls)
  /\ UNCHANGED backend
  /\ UserEvent

\* The user types in the form of GitHubConfig.
setToken(value) ==
  /\ ConfigForm
  /\ value # gitHubConfig.token
  /\ Commit([Components EXCEPT !.config.token = value], tasks, calls)
  /\ UNCHANGED backend
  /\ UserEvent
setUsername(value) ==
  /\ ConfigForm
  /\ value # gitHubConfig.username
  /\ Commit([Components EXCEPT !.config.username = value], tasks, calls)
  /\ UNCHANGED backend
  /\ UserEvent

\* A click on Configure GitHub, disabled while token or username is blank.
handleConfigure ==
  /\ ConfigForm
  /\ ~Blank(gitHubConfig.token) /\ ~Blank(gitHubConfig.username)
  /\ Invoked(Task("config", ""), handleConfigureStarts(Components, Task("config", "")))

\* A click on Refresh Status in the connected view.
checkStatus ==
  /\ ConnectedView
  /\ Invoked(Task("config", ""), checkStatusStarts(Components, Task("config", "")))

\* A click on Disconnect in the connected view.
handleDisconnect ==
  /\ ConnectedView
  /\ Invoked(Task("config", ""), handleDisconnectStarts(Components, Task("config", "")))

\* The user types in the forms of GitHubOperations.
setRepoName(value) ==
  /\ OperationsPanel
  /\ value # gitHubOperations.repoName
  /\ Commit([Components EXCEPT !.operations.repoName = value], tasks, calls)
  /\ UNCHANGED backend
  /\ UserEvent
setExtractRepoName(value) ==
  /\ OperationsPanel
  /\ value # gitHubOperations.extractRepoName
  /\ Commit([Components EXCEPT !.operations.extractRepoName = value], tasks, calls)
  /\ UNCHANGED backend
  /\ UserEvent

\* A click on Create Repository, disabled while the name is blank or loading.
handleCreateRepository ==
  /\ OperationsPanel
  /\ ~Blank(gitHubOperations.repoName) /\ ~gitHubOperations.loading
  /\ LET task == Task("operations", gitHubOperations.repoName)
     IN Invoked(task, handleCreateRepositoryStarts(Components, task))

\* A click on Extract & Push, disabled while the name is blank or loading.
handleExtractAndPush(now) ==
  /\ OperationsPanel
  /\ ~Blank(gitHubOperations.extractRepoName) /\ ~gitHubOperations.loading
  /\ LET task == Task("operations", gitHubOperations.extractRepoName)
     IN Invoked(task, handleExtractAndPushStarts(Components, task, now))

\* A click on Quick Extract.
handleQuickExtract(now) ==
  /\ OperationsPanel
  /\ Invoked(Task("operations", ""),
             handleQuickExtractRuns(Components, Task("operations", ""), now))

\* A click on Refresh, disabled while loading.
loadRepositories ==
  /\ OperationsPanel
  /\ ~gitHubOperations.loading
  /\ Invoked(Task("operations", ""),
             loadRepositoriesStarts(Components, Task("operations", "")))

\* A click on Delete in the row of a listed repository, and the answer to
\* the confirmation.
handleDeleteRepository(repoName, confirmed) ==
  /\ OperationsPanel
  /\ repoName \in Listed
  /\ LET task == Task("operations", repoName)
     IN Invoked(task, handleDeleteRepositoryStarts(Components, task, confirmed))

\* The call that task i awaits has completed: the client method returns or
\* throws, and the handler goes on in the same turn.  Nothing keeps the
\* promise of a handler that has returned.
HandlerResumes(i) ==
  /\ calls[i].pc = "resume"
  /\ tasks[i].stack # <<>>
  /\ LET result == Settle(calls[i].op, calls[i].settled)
         out == Continue(Components, tasks[i], result)
         shown == /\ tasks[i].live
                  /\ tasks[i].issued > 0
                  /\ result.returned /\ ~NullResult(result)
                  /\ Truthy(GetProp(result.value, "success"))
                  /\ Truthy(GetProp(result.value, "repositories"))
     IN IF out.await = <<>>
          THEN Commit(out.u,
                      IF shown THEN Overtake([tasks EXCEPT ![i] = NoTask], tasks[i].issued)
                               ELSE [tasks EXCEPT ![i] = NoTask],
                      [calls EXCEPT ![i] = Idle])
          ELSE Commit(out.u,
                      Stamp([tasks EXCEPT ![i].stack = Append(@, out.await[1].frame),
                                          ![i].cleared = Null], i),
                      [calls EXCEPT ![i] =
                         Awaiting(out.await[1].op, out.await[1].args,
                                  Append(@.sent, out.await[1].request))])
  /\ UNCHANGED <<backend, events>>

(***************************************************************************)
(* Spec: one call site makes any calls one after the other, and every      *)
(* exchange may end in every way.                                          *)
(***************************************************************************)
Credentials ==
  {Obj([token |-> Str("t1"), username |-> Str("u1")]),
   Obj([token |-> Str("bad"), username |-> Str("u2")]),
   Obj([token |-> Str(""), username |-> Str("")])}
RepoNames == {"r1", "r2"}
Repositories == {Obj([name |-> Str("r1"), description |-> Str("d"), private |-> Bool(FALSE)])}
ExtractRequests ==
  {Obj([source_dir |-> Str("./generated"), repo_name |-> Str("r1"),
        description |-> Str("d"), private |-> Bool(FALSE)])}
UpdateRequests == {Obj([repo_name |-> Str("r1"), source_dir |-> Str("./generated")])}
Tokens == {"t1", "bad"}
Descriptions == {"", "d"}
Instants == {"2025-01-01T00:00:00.000Z"}

Init ==
  /\ calls = [i \in {1} |-> Idle]
  /\ backend = BackendInit
  /\ NotRendered

Next ==
  \/ \E i \in DOMAIN calls, config \in Credentials : configure(i, config)
  \/ \E i \in DOMAIN calls : getStatus(i)
  \/ \E i \in DOMAIN calls, repo \in Repositories : createRepository(i, repo)
  \/ \E i \in DOMAIN calls : listRepositories(i)
  \/ \E i \in DOMAIN calls, repoName \in RepoNames : getRepository(i, repoName)
  \/ \E i \in DOMAIN calls, request \in ExtractRequests : extractAndPush(i, request)
  \/ \E i \in DOMAIN calls, request \in UpdateRequests : updateRepository(i, request)
  \/ \E i \in DOMAIN calls, repoName \in RepoNames : deleteRepository(i, repoName)
  \/ \E i \in DOMAIN calls, repoName \in RepoNames, description \in Descriptions,
        now \in Instants : quickExtract(i, repoName, description, FALSE, now)
  \/ \E i \in DOMAIN calls, token \in Tokens : validateToken(i, token)
  \/ \E i \in DOMAIN calls : BackendHandles(i)
  \/ \E i \in DOMAIN calls : ResponseLost(i)
  \/ \E i \in DOMAIN calls, failure \in Failures : ExchangeFails(i, failure)
  \/ \E i \in DOMAIN calls : Resume(i)

Spec == Init /\ [][Next]_vars

(***************************************************************************)
(* SpecRace: MaxCalls call sites make one call each, at the same time; the *)
(* responses arrive in any order.                                          *)
(***************************************************************************)
InitRace ==
  /\ calls = [i \in 1..MaxCalls |-> Idle]
  /\ backend = BackendInit
  /\ NotRendered

\* Call site i has not made its call yet.
Fresh(i) == calls[i].pc = "idle"

NextRace ==
  \/ \E i \in DOMAIN calls :
       Fresh(i) /\ configure(i, Obj([token |-> Str("t1"), username |-> Str("u1")]))
  \/ \E i \in DOMAIN calls : Fresh(i) /\ getStatus(i)
  \/ \E i \in DOMAIN calls, repo \in Repositories : Fresh(i) /\ createRepository(i, repo)
  \/ \E i \in DOMAIN calls : Fresh(i) /\ listRepositories(i)
  \/ \E i \in DOMAIN calls : Fresh(i) /\ getRepository(i, "r1")
  \/ \E i \in DOMAIN calls, request \in ExtractRequests :
       Fresh(i) /\ extractAndPush(i, request)
  \/ \E i \in DOMAIN calls, request \in UpdateRequests :
       Fresh(i) /\ updateRepository(i, request)
  \/ \E i \in DOMAIN calls : Fresh(i) /\ deleteRepository(i, "r1")
  \/ \E i \in DOMAIN calls, now \in Instants :
       Fresh(i) /\ quickExtract(i, "r1", "", FALSE, now)
  \/ \E i \in DOMAIN calls : Fresh(i) /\ validateToken(i, "bad")
  \/ \E i \in DOMAIN calls : BackendHandles(i)
  \/ \E i \in DOMAIN calls : ResponseLost(i)
  \/ \E i \in DOMAIN calls, failure \in CommonFailures : ExchangeFails(i, failure)
  \/ \E i \in DOMAIN calls : Resume(i)

SpecRace == InitRace /\ [][NextRace]_vars

(***************************************************************************)
(* SpecSession: one call site makes up to MaxSession configuration calls   *)
(* one after the other, and keeps what each returned.                      *)
(***************************************************************************)
InitSession ==
  /\ calls = [i \in 1..MaxSession |-> Idle]
  /\ backend = BackendInit
  /\ NotRendered

\* Call i is the next one of the session.
NextInSession(i) ==
  /\ calls[i].pc = "idle"
  /\ \A j \in 1..(i - 1) : calls[j].pc = "done"

NextSession ==
  \/ \E i \in DOMAIN calls, config \in Credentials :
       NextInSession(i) /\ configure(i, config)
  \/ \E i \in DOMAIN calls : NextInSession(i) /\ getStatus(i)
  \/ \E i \in DOMAIN calls, token \in Tokens : NextInSession(i) /\ validateToken(i, token)
  \/ \E i \in DOMAIN calls : BackendHandles(i)
  \/ \E i \in DOMAIN calls : ResponseLost(i)
  \/ \E i \in DOMAIN calls, failure \in CommonFailures : ExchangeFails(i, failure)
  \/ \E i \in DOMAIN calls : Resume(i)

SpecSession == InitSession /\ [][NextSession]_vars

(***************************************************************************)
(* SpecPage: the page is open.  GitHubPage and GitHubConfig have mounted   *)
(* and their effects have each asked for the status; the user clicks and   *)
(* types, and the exchanges end in any order.                              *)
(***************************************************************************)
TokenTexts == {"t1", "bad"}
UsernameTexts == {"u1"}
NameTexts == {"r1"}

\* No settled call waits for its handler.  A handler resumes before the next
\* event is handled: an event that comes between the arrival of a response and
\* the handler's turn is an event that came before the response.
Quiet == \A j \in DOMAIN calls : calls[j].pc # "resume"

InitPage ==
  /\ events = 0
  /\ backend \in {BackendInit, [configured |-> TRUE, username |-> "u1"]}
  /\ gitHubPage = GitHubPageState
  /\ gitHubConfig = [GitHubConfigState EXCEPT !.loading = TRUE]
  /\ gitHubOperations = GitHubOperationsState
  /\ tasks = [i \in 1..MaxTasks |->
                CASE i = 1 -> [Task("config", "") EXCEPT !.stack = <<"checkStatus">>]
                  [] i = 2 -> [Task("page", "") EXCEPT !.stack = <<"checkGitHubStatus">>]
                  [] OTHER -> NoTask]
  /\ calls = [i \in 1..MaxTasks |->
                IF i <= 2 THEN Awaiting("getStatus", <<>>, <<getStatusFetch>>) ELSE Idle]

NextPage ==
  \/ Quiet /\ \E tab \in {"config", "operations"} : setActiveTab(tab)
  \/ Quiet /\ \E value \in TokenTexts : setToken(value)
  \/ Quiet /\ \E value \in UsernameTexts : setUsername(value)
  \/ Quiet /\ handleConfigure
  \/ Quiet /\ \E value \in NameTexts : setRepoName(value)
  \/ Quiet /\ \E value \in NameTexts : setExtractRepoName(value)
  \/ Quiet /\ handleCreateRepository
  \/ Quiet /\ \E now \in Instants : handleExtractAndPush(now)
  \/ Quiet /\ \E now \in Instants : handleQuickExtract(now)
  \/ Quiet /\ loadRepositories
  \/ Quiet /\ \E repoName \in RepoNames, confirmed \in BOOLEAN :
                handleDeleteRepository(repoName, confirmed)
  \/ Quiet /\ \E i \in DOMAIN calls : BackendHandles(i)
  \/ Quiet /\ \E i \in DOMAIN calls : ResponseLost(i)
  \/ Quiet /\ \E i \in DOMAIN calls : ExchangeFails(i, NetworkError)
  \/ \E i \in DOMAIN calls : HandlerResumes(i)

SpecPage == InitPage /\ [][NextPage]_vars

(***************************************************************************)
(* SpecUI: the components as they can be rendered.  Either the page is     *)
(* open, as in SpecPage, or GitHubConfig is rendered on its own by a host   *)
(* that keeps it mounted; only there does its connected view, with Refresh  *)
(* Status and Disconnect, come on the screen.                              *)
(***************************************************************************)
\* GitHubConfig has mounted without GitHubPage and its effect has asked for
\* the status; the host has not been told a status yet.
InitConfig ==
  /\ events = 0
  /\ backend \in {BackendInit, [configured |-> TRUE, username |-> "u1"]}
  /\ gitHubPage = [activeTab |-> "none", githubStatus |-> Null]
  /\ gitHubConfig = [GitHubConfigState EXCEPT !.loading = TRUE]
  /\ gitHubOperations = GitHubOperationsState
  /\ tasks = [i \in 1..MaxTasks |->
                IF i = 1 THEN [Task("config", "") EXCEPT !.stack = <<"checkStatus">>]
                         ELSE NoTask]
  /\ calls = [i \in 1..MaxTasks |->
                IF i = 1 THEN Awaiting("getStatus", <<>>, <<getStatusFetch>>) ELSE Idle]

InitUI == InitPage \/ InitConfig

NextUI ==
  \/ Quiet /\ \E tab \in {"config", "operations"} : setActiveTab(tab)
  \/ Quiet /\ \E value \in TokenTexts : setToken(value)
  \/ Quiet /\ \E value \in UsernameTexts : setUsername(value)
  \/ Quiet /\ handleConfigure
  \/ Quiet /\ checkStatus
  \/ Quiet /\ handleDisconnect
  \/ Quiet /\ \E value \in NameTexts : setRepoName(value)
  \/ Quiet /\ \E value \in NameTexts : setExtractRepoName(value)
  \/ Quiet /\ handleCreateRepository
  \/ Quiet /\ \E now \in Instants : handleExtractAndPush(now)
  \/ Quiet /\ \E now \in Instants : handleQuickExtract(now)
  \/ Quiet /\ loadRepositories
  \/ Quiet /\ \E repoName \in RepoNames, confirmed \in BOOLEAN :
                handleDeleteRepository(repoName, confirmed)
  \/ Quiet /\ \E i \in DOMAIN calls : BackendHandles(i)
  \/ Quiet /\ \E i \in DOMAIN calls : ResponseLost(i)
  \/ Quiet /\ \E i \in DOMAIN calls : ExchangeFails(i, NetworkError)
  \/ \E i \in DOMAIN calls : HandlerResumes(i)

SpecUI == InitUI /\ [][NextUI]_vars

(***************************************************************************)
(* SpecUILive: SpecUI where every request that has been handed to fetch    *)
(* completes, with a response or with a failure, and where the handler of  *)
(* a call that has completed resumes: the continuation of an await runs as *)
(* soon as the awaited call has settled, before any later event.           *)
(***************************************************************************)
\* The exchange of call i ends.
Completes(i) ==
  BackendHandles(i) \/ ResponseLost(i) \/ ExchangeFails(i, NetworkError)

\* In a state that is not Quiet the one possible step is HandlerResumes, so
\* that []<>Quiet says what weak fairness of HandlerResumes says.
SpecUILive ==
  /\ SpecUI
  /\ WF_vars(Quiet /\ \E i \in DOMAIN calls : Completes(i))
  /\ []<>Quiet

(***************************************************************************)
(* SpecForm: the three form handlers called with any contents of their     *)
(* fields, blank ones included.  The buttons that call them are disabled   *)
(* while a required field is blank, so that on the page the handlers never *)
(* see such input; here each handler is called as the function it is, on a *)
(* mounted component that is not loading.                                  *)
(***************************************************************************)
FormTexts == {"", " ", "r1"}
Messages == {Null, Str("earlier message")}

InitForm ==
  /\ events = 0
  /\ backend = [configured |-> TRUE, username |-> "u1"]
  /\ tasks = [i \in 1..MaxTasks |-> NoTask]
  /\ calls = [i \in 1..MaxTasks |-> Idle]
  /\ \/ /\ gitHubPage = GitHubPageState
        /\ \E token \in FormTexts, username \in FormTexts,
              error \in Messages, success \in Messages :
             gitHubConfig = [GitHubConfigState EXCEPT
                               !.token = token, !.username = username,
                               !.error = error, !.success = success,
                               !.status = Obj([configured |-> Bool(FALSE)])]
        /\ gitHubOperations = GitHubOperationsState
     \/ /\ gitHubPage = [activeTab |-> "operations",
                         githubStatus |-> Obj([configured |-> Bool(TRUE)])]
        /\ gitHubConfig = GitHubConfigState
        /\ \E repoName \in FormTexts, extractRepoName \in FormTexts,
              error \in Messages, success \in Messages :
             gitHubOperations = [GitHubOperationsState EXCEPT
                                   !.repoName = repoName,
                                   !.extractRepoName = extractRepoName,
                                   !.error = error, !.success = success]

\* The handlers, called whatever their fields hold.
handleConfigureCalled ==
  /\ gitHubPage.activeTab = "config" /\ ~gitHubConfig.loading
  /\ Invoked(Task("config", ""), handleConfigureStarts(Components, Task("config", "")))
handleCreateRepositoryCalled ==
  /\ gitHubPage.activeTab = "operations" /\ ~gitHubOperations.loading
  /\ LET task == Task("operations", gitHubOperations.repoName)
     IN Invoked(task, handleCreateRepositoryStarts(Components, task))
handleExtractAndPushCalled(now) ==
  /\ gitHubPage.activeTab = "operations" /\ ~gitHubOperations.loading
  /\ LET task == Task("operations", gitHubOperations.extractRepoName)
     IN Invoked(task, handleExtractAndPushStarts(Components, task, now))

NextForm ==
  \/ Quiet /\ handleConfigureCalled
  \/ Quiet /\ handleCreateRepositoryCalled
  \/ Quiet /\ \E now \in Instants : handleExtractAndPushCalled(now)
  \/ Quiet /\ \E i \in DOMAIN calls : BackendHandles(i)
  \/ Quiet /\ \E i \in DOMAIN calls : ExchangeFails(i, NetworkError)
  \/ \E i \in DOMAIN calls : HandlerResumes(i)

SpecForm == InitForm /\ [][NextForm]_vars

(***************************************************************************)
(* Properties of the client.                                               *)
(***************************************************************************)
Done(i) == calls[i].pc = "done"
\* The exchange of call i ended with a response whose body is JSON.
GotJson(i) == calls[i].settled.kind = "response" /\ calls[i].settled.body.json
\* ... with an error status.
GotErrorStatus(i) == calls[i].settled.kind = "response" /\ calls[i].settled.status >= 400
\* ... with a 2xx status.
Got2xx(i) == calls[i].settled.kind = "response" /\ calls[i].settled.status \in 200..299
\* The response body of call i is a JSON object with a detail field.
HasDetail(i) ==
  /\ GotJson(i)
  /\ calls[i].settled.body.value.t = "object"
  /\ "detail" \in DOMAIN calls[i].settled.body.value.v
Detail(i) == calls[i].settled.body.value.v.detail
\* Call i raised an error with this message and returned nothing.
RaisedWith(i, message) ==
  /\ calls[i].result.raised
  /\ ~calls[i].result.returned
  /\ calls[i].result.value = Undefined
  /\ calls[i].result.error.message = message
\* Call i returned this value and raised nothing.
ReturnedValue(i, x) ==
  /\ calls[i].result.returned
  /\ ~calls[i].result.raised
  /\ calls[i].result.value = x
NotConfigured(message) == Obj([configured |-> Bool(FALSE), error |-> Str(message)])

\* C1: getStatus never raises.  Whatever the outcome of the exchange, it
\* returns a value; a 2xx response with a JSON body yields the parsed body,
\* every other outcome yields {configured: false, error: <message>}, where the
\* message is the network error's, the JSON parser's, the response's detail
\* or 'Failed to get GitHub status'.
C1_GetStatusNeverRaises ==
  \A i \in DOMAIN calls :
    (calls[i].op = "getStatus" /\ Done(i)) =>
      /\ calls[i].result.returned
      /\ ~calls[i].result.raised
      /\ (Got2xx(i) /\ GotJson(i)) <=> calls[i].result.value = calls[i].settled.body.value
      /\ ~(Got2xx(i) /\ GotJson(i)) =>
           /\ GetProp(calls[i].result.value, "configured") = Bool(FALSE)
           /\ GetProp(calls[i].result.value, "error").t = "string"
           /\ DOMAIN calls[i].result.value.v = {"configured", "error"}
      /\ calls[i].settled.kind = "rejected" =>
           ReturnedValue(i, NotConfigured("Failed to fetch"))
      /\ (calls[i].settled.kind = "response" /\ ~GotJson(i)) =>
           ReturnedValue(i, NotConfigured("Unexpected token < in JSON at position 0"))
      /\ (GotErrorStatus(i) /\ HasDetail(i) /\ Detail(i).t = "string" /\ Detail(i).v # "") =>
           ReturnedValue(i, NotConfigured(Detail(i).v))
      /\ (GotErrorStatus(i) /\ GotJson(i) /\ calls[i].settled.body.value.t = "object"
            /\ ~HasDetail(i)) =>
           ReturnedValue(i, NotConfigured("Failed to get GitHub status"))

\* C1 witness: a status request answered with an error status and a detail
\* has been turned into a not-configured result.
C1_Witness ==
  \E i \in DOMAIN calls :
    /\ calls[i].op = "getStatus" /\ Done(i)
    /\ GotErrorStatus(i) /\ HasDetail(i)
    /\ calls[i].result.value = NotConfigured("Source directory does not exist")

\* The fallback message of each method that has one.
Fallback(op) ==
  CASE op = "configure" -> "Failed to configure GitHub"
    [] op = "getStatus" -> "Failed to get GitHub status"
    [] op = "createRepository" -> "Failed to create repository"
    [] op = "listRepositories" -> "Failed to list repositories"
    [] op = "getRepository" -> "Failed to get repository"
    [] op = "extractAndPush" -> "Failed to extract and push"
    [] op = "updateRepository" -> "Failed to update repository"
    [] op = "deleteRepository" -> "Failed to delete repository"
    [] op = "quickExtract" -> "Failed to extract and push"
    [] OTHER -> ""

C3_AsClaimed ==
  \A i \in DOMAIN calls :
    (Done(i) /\ calls[i].op # "getStatus" /\ GotErrorStatus(i) /\ ~HasDetail(i)) =>
      RaisedWith(i, Fallback(calls[i].op))

\* C3, amended: on a response that is not 2xx whose body is a JSON object
\* without a detail field, every call except getStatus and validateToken
\* raises its fallback message, whatever the other fields are.  A body that is
\* not JSON raises the parser's error, the body null raises a TypeError, and
\* validateToken returns false.
C3_FallbackIsRaised ==
  \A i \in DOMAIN calls :
    (Done(i) /\ GotErrorStatus(i) /\ ~HasDetail(i)) =>
      /\ (calls[i].op \notin {"getStatus", "validateToken"} /\ GotJson(i)
            /\ calls[i].settled.body.value.t = "object") =>
           RaisedWith(i, Fallback(calls[i].op))
      /\ (calls[i].op \notin {"getStatus", "validateToken"} /\ ~GotJson(i)) =>
           /\ calls[i].result.raised
           /\ calls[i].result.error.name = "SyntaxError"
      /\ (calls[i].op \notin {"getStatus", "validateToken"} /\ GotJson(i)
            /\ calls[i].settled.body.value = Null) =>
           /\ calls[i].result.raised
           /\ calls[i].result.error.name = "TypeError"
      /\ calls[i].op = "validateToken" => ReturnedValue(i, Bool(FALSE))

\* C3 witness: deleteRepository was answered 500 with a JSON object that has
\* an error field but no detail, and raised 'Failed to delete repository'.
C3_Witness ==
  \E i \in DOMAIN calls :
    /\ calls[i].op = "deleteRepository" /\ Done(i)
    /\ calls[i].settled = Response(500, JsonText(Obj([error |-> Str("boom")])))
    /\ RaisedWith(i, "Failed to delete repository")

\* C4, as claimed: every call except getStatus raises the underlying error
\* when fetch rejects or the body is not JSON, and returns no value.
C4_AsClaimed ==
  \A i \in DOMAIN calls :
    (Done(i) /\ calls[i].op # "getStatus"
       /\ (calls[i].settled.kind = "rejected" \/ ~GotJson(i))) =>
      /\ calls[i].result.raised
      /\ ~calls[i].result.returned

\* C4, amended: every call except getStatus and validateToken raises the
\* underlying error (the network error of fetch, the SyntaxError of
\* response.json()) when fetch rejects or the body is not JSON, and returns no
\* value; validateToken returns false when fetch rejects and response.ok when
\* the body is not JSON.
C4_TransportFailureIsRaised ==
  \A i \in DOMAIN calls :
    (Done(i) /\ calls[i].op # "getStatus") =>
      /\ (calls[i].op # "validateToken" /\ calls[i].settled.kind = "rejected") =>
           /\ RaisedWith(i, "Failed to fetch")
           /\ calls[i].result.error = calls[i].settled.error
      /\ (calls[i].op # "validateToken" /\ calls[i].settled.kind = "response"
            /\ ~GotJson(i)) =>
           /\ RaisedWith(i, "Unexpected token < in JSON at position 0")
           /\ calls[i].result.error.name = "SyntaxError"
      /\ (calls[i].op = "validateToken" /\ calls[i].settled.kind = "rejected") =>
           ReturnedValue(i, Bool(FALSE))
      /\ (calls[i].op = "validateToken" /\ calls[i].settled.kind = "response") =>
           ReturnedValue(i, Bool(Got2xx(i)))

\* C4 witness: listRepositories raised the network error of its fetch, and
\* createRepository the parse error of a 2xx body that is not JSON.
C4_Witness ==
  \E i \in DOMAIN calls :
    /\ Done(i)
    /\ \/ /\ calls[i].op = "listRepositories"
          /\ calls[i].settled = NetworkError
          /\ RaisedWith(i, "Failed to fetch")
       \/ /\ calls[i].op = "createRepository"
          /\ calls[i].settled = Response(200, NotJson)
          /\ calls[i].result.raised

C7_ConfigurePostsCredentials ==
  \A i \in DOMAIN calls :
    (calls[i].op = "configure"
       /\ GetProp(calls[i].args[1], "token").v # ""
       /\ GetProp(calls[i].args[1], "username").v # "") =>
      /\ Len(calls[i].sent) = 1
      /\ calls[i].sent[1].method = "POST"
      /\ calls[i].sent[1].url = "http://localhost:8000/github/configure"
      /\ calls[i].sent[1].body.json
      /\ calls[i].sent[1].body.value = calls[i].args[1]
      /\ (Done(i) /\ Got2xx(i) /\ GotJson(i)) =>
           ReturnedValue(i, calls[i].settled.body.value)

\* C7 witness: configure({token: "t1", username: "u1"}) was answered 200 and
\* returned the body, which reports success for u1.
C7_Witness ==
  \E i \in DOMAIN calls :
    /\ calls[i].op = "configure" /\ Done(i)
    /\ calls[i].args[1] = Obj([token |-> Str("t1"), username |-> Str("u1")])
    /\ Got2xx(i)
    /\ calls[i].result.returned
    /\ GetProp(calls[i].result.value, "success") = Bool(TRUE)
    /\ GetProp(calls[i].result.value, "username") = Str("u1")

\* C10: deleteRepository(name) hands exactly one request to fetch, a DELETE to
\* <base>/repositories/<name> without a body, in the step in which it is
\* called: there is no state in which it has been called and waits for a
\* confirmation.
C10_DeleteIssuesOneDelete ==
  \A i \in DOMAIN calls :
    calls[i].op = "deleteRepository" =>
      /\ calls[i].pc \in {"awaitFetch", "resume", "done"}
      /\ Len(calls[i].sent) = 1
      /\ calls[i].sent[1].method = "DELETE"
      /\ calls[i].sent[1].url =
           "http://localhost:8000/github/repositories/" \o calls[i].args[1].v
      /\ calls[i].sent[1].body = NoBody

\* C10 witness: deleteRepository("r2") has completed after its one request.
C10_Witness ==
  \E i \in DOMAIN calls :
    /\ calls[i].op = "deleteRepository" /\ Done(i)
    /\ calls[i].args = <<Str("r2")>>
    /\ calls[i].sent[1].url = "http://localhost:8000/github/repositories/r2"
    /\ calls[i].result.returned

\* The request record in the body of the request call i sent.
Sent(i) == calls[i].sent[1].body.value

\* C13: quickExtract(name), with the description and the private flag at
\* their defaults ('' and false), sends one request, the one extractAndPush
\* sends for the record {source_dir: './generated', repo_name: name,
\* description: a non-empty generated text that ends with the time of the
\* call, private: false, include_patterns and exclude_patterns: the fixed
\* lists}, and completes as extractAndPush completes on the outcome of that
\* exchange; a non-empty description is in the record as it was given.
C13_QuickExtractDelegates ==
  \A i \in DOMAIN calls :
    calls[i].op = "quickExtract" =>
      /\ Len(calls[i].sent) = 1
      /\ calls[i].sent[1] = extractAndPushFetch(Sent(i))
      /\ calls[i].sent[1].method = "POST"
      /\ calls[i].sent[1].url = "http://localhost:8000/github/extract-and-push"
      /\ DOMAIN Sent(i).v = {"source_dir", "repo_name", "description", "private",
                              "include_patterns", "exclude_patterns"}
      /\ Sent(i).v.source_dir = Str("./generated")
      /\ Sent(i).v.repo_name = calls[i].args[1]
      /\ Sent(i).v.private = calls[i].args[3]
      /\ Sent(i).v.private = Bool(FALSE)
      /\ Sent(i).v.include_patterns =
           Arr(<<Str("*.py"), Str("*.js"), Str("*.ts"), Str("*.tsx"), Str("*.jsx"),
                 Str("*.html"), Str("*.css"), Str("*.json"), Str("*.md"), Str("*.txt")>>)
      /\ Sent(i).v.exclude_patterns =
           Arr(<<Str("__pycache__"), Str("*.log"), Str("*.tmp"), Str(".DS_Store"),
                 Str("node_modules"), Str(".git")>>)
      /\ calls[i].args[2] # Str("") => Sent(i).v.description = calls[i].args[2]
      /\ calls[i].args[2] = Str("") =>
           /\ Sent(i).v.description.t = "string"
           /\ Sent(i).v.description.v # ""
           /\ \E now \in Instants :
                Sent(i).v.description.v = "AI-generated code from Cube AI System - " \o now
      /\ Done(i) =>
           /\ calls[i].result = extractAndPushSettle(calls[i].settled)
           /\ calls[i].result.returned # calls[i].result.raised

\* C13 witness: quickExtract("r1") has sent its request with the generated
\* description and has returned the body of the 2xx response.
C13_Witness ==
  \E i \in DOMAIN calls :
    /\ calls[i].op = "quickExtract" /\ Done(i)
    /\ calls[i].args = <<Str("r1"), Str(""), Bool(FALSE)>>
    /\ Sent(i).v.description =
         Str("AI-generated code from Cube AI System - 2025-01-01T00:00:00.000Z")
    /\ Got2xx(i)
    /\ ReturnedValue(i, calls[i].settled.body.value)

\* C15: validateToken(token) hands exactly one request to fetch, a POST to
\* <base>/configure whose body is the JSON text of {token, username: 'test'},
\* and never raises: it returns true exactly when the exchange ended with a
\* response of status 2xx, whatever the body, and false on any other status
\* and when fetch rejected.
C15_ValidateTokenProbes ==
  \A i \in DOMAIN calls :
    calls[i].op = "validateToken" =>
      /\ Len(calls[i].sent) = 1
      /\ calls[i].sent[1].method = "POST"
      /\ calls[i].sent[1].url = "http://localhost:8000/github/configure"
      /\ calls[i].sent[1].body.json
      /\ calls[i].sent[1].body.value
           = Obj([token |-> calls[i].args[1], username |-> Str("test")])
      /\ Done(i) =>
           /\ calls[i].result.returned
           /\ ~calls[i].result.raised
           /\ calls[i].result.error = NoError
           /\ calls[i].result.value.t = "boolean"
           /\ calls[i].result.value.v <=>
                (calls[i].settled.kind = "response" /\ calls[i].settled.status \in 200..299)
           /\ calls[i].settled.kind = "rejected" => calls[i].result.value = Bool(FALSE)

\* C15 witness: validateToken("bad") was answered 200 with a body that says
\* success = false, and returned true.
C15_Witness ==
  \E i \in DOMAIN calls :
    /\ calls[i].op = "validateToken" /\ Done(i)
    /\ calls[i].args = <<Str("bad")>>
    /\ calls[i].settled.kind = "response" /\ calls[i].settled.status = 200
    /\ GetProp(calls[i].settled.body.value, "success") = Bool(FALSE)
    /\ calls[i].result = Return(Bool(TRUE))

\* C16: every call is fire-once.  An invocation hands exactly one request to
\* fetch, when it is made; no step after that hands it another, whether the
\* exchange ends with a response, an error status or no response at all (no
\* retry); and an invocation made when the same method has already been
\* called sends its own request and completes on the outcome of its own
\* exchange (no caching).
C16_FireOnce ==
  [][\A i \in DOMAIN calls :
       /\ calls'[i].pc # "idle" => Len(calls'[i].sent) = 1
       /\ calls[i].pc # "idle" =>
            /\ calls'[i].sent = calls[i].sent
            /\ calls'[i].op = calls[i].op
       /\ (calls[i].pc = "idle" /\ calls'[i].pc # "idle") =>
            /\ calls'[i].pc = "awaitFetch"
            /\ calls'[i].settled = NotSettled
       /\ (calls[i].pc = "resume" /\ calls'[i] # calls[i]) =>
            /\ calls'[i].pc = "done"
            /\ calls'[i].settled = calls[i].settled
  ]_vars

\* C16 witness: listRepositories was called at two call sites; the exchange
\* of the one failed and it raised, the other returned the body of its
\* response; each has handed one request to fetch.
C16_Witness ==
  \E i, j \in DOMAIN calls :
    /\ i # j
    /\ calls[i].op = "listRepositories" /\ calls[j].op = "listRepositories"
    /\ Done(i) /\ Done(j)
    /\ calls[i].settled = NetworkError /\ RaisedWith(i, "Failed to fetch")
    /\ Got2xx(j) /\ ReturnedValue(j, calls[j].settled.body.value)
    /\ Len(calls[i].sent) = 1 /\ Len(calls[j].sent) = 1

\* The request the method of call i builds from the arguments of call i.
OwnRequest(i) ==
  LET args == calls[i].args IN
  CASE calls[i].op = "configure" -> configureFetch(args[1])
    [] calls[i].op = "getStatus" -> getStatusFetch
    [] calls[i].op = "createRepository" -> createRepositoryFetch(args[1])
    [] calls[i].op = "listRepositories" -> listRepositoriesFetch
    [] calls[i].op = "getRepository" -> getRepositoryFetch(args[1].v)
    [] calls[i].op = "extractAndPush" -> extractAndPushFetch(args[1])
    [] calls[i].op = "updateRepository" -> updateRepositoryFetch(args[1])
    [] calls[i].op = "deleteRepository" -> deleteRepositoryFetch(args[1].v)
    [] calls[i].op = "quickExtract" ->
         quickExtractFetch(args[1].v, args[2].v, args[3].v,
                           CHOOSE now \in Instants : TRUE)
    [] calls[i].op = "validateToken" -> validateTokenFetch(args[1].v)

\* The addresses under the fixed base URL.
Addresses ==
  {"http://localhost:8000/github" \o path :
     path \in {"/configure", "/status", "/repositories", "/repositories/r1",
               "/repositories/r2", "/extract-and-push", "/update-repository"}}

\* C17: the shared client has no state of its own.  However the calls of the
\* call sites and their responses interleave, the request of each call is
\* the one its method builds from the call's own arguments, under the fixed
\* base URL, and equal for equal arguments; and each call completes with the
\* outcome of its own exchange: a status poll returns a status, a call that
\* another call races returns the body of the response to its own request.
C17_CallsAreIndependent ==
  \A i \in DOMAIN calls :
    calls[i].pc # "idle" =>
      /\ calls[i].sent = <<OwnRequest(i)>>
      /\ calls[i].sent[1].url \in Addresses
      /\ \A j \in DOMAIN calls :
           (calls[j].op = calls[i].op /\ calls[j].args = calls[i].args) =>
             calls[j].sent = calls[i].sent
      /\ Done(i) =>
           /\ calls[i].result = Settle(calls[i].op, calls[i].settled)
           /\ (Got2xx(i) /\ calls[i].op # "validateToken") =>
                /\ ReturnedValue(i, calls[i].settled.body.value)
                /\ calls[i].op = "getStatus" <=>
                     "configured" \in DOMAIN calls[i].result.value.v
                /\ calls[i].op # "getStatus" <=>
                     "success" \in DOMAIN calls[i].result.value.v

\* C17 witness: a configure call and a status poll were under way at the same
\* time; configure returned success for u1, and the poll, answered first,
\* returned the status from before: not configured.
C17_Witness ==
  \E i, j \in DOMAIN calls :
    /\ calls[i].op = "configure" /\ calls[j].op = "getStatus"
    /\ Done(i) /\ Done(j)
    /\ GetProp(calls[i].result.value, "success") = Bool(TRUE)
    /\ GetProp(calls[i].result.value, "username") = Str("u1")
    /\ calls[j].result.value =
         Obj([configured |-> Bool(FALSE), message |-> Str("GitHub not configured")])
    /\ backend.configured

\* The endpoint table: method and path of each operation.
EndpointMethod(op) ==
  CASE op \in {"configure", "createRepository", "extractAndPush", "updateRepository"} -> "POST"
    [] op \in {"getStatus", "listRepositories", "getRepository"} -> "GET"
    [] op = "deleteRepository" -> "DELETE"
EndpointPath(op, args) ==
  CASE op = "configure" -> "/configure"
    [] op = "getStatus" -> "/status"
    [] op \in {"createRepository", "listRepositories"} -> "/repositories"
    [] op \in {"getRepository", "deleteRepository"} -> "/repositories/" \o args[1].v
    [] op = "extractAndPush" -> "/extract-and-push"
    [] op = "updateRepository" -> "/update-repository"

\* C18: each of the eight operations hands fetch the method and the path of
\* the endpoint table, under http://localhost:8000/github; the body of a POST
\* is the JSON text of the record the operation was given, field for field,
\* and a GET or DELETE has no body.
C18_EndpointTable ==
  \A i \in DOMAIN calls :
    calls[i].op \in {"configure", "getStatus", "createRepository", "listRepositories",
                     "getRepository", "extractAndPush", "updateRepository",
                     "deleteRepository"} =>
      /\ Len(calls[i].sent) = 1
      /\ calls[i].sent[1].method = EndpointMethod(calls[i].op)
      /\ calls[i].sent[1].url =
           "http://localhost:8000/github" \o EndpointPath(calls[i].op, calls[i].args)
      /\ EndpointMethod(calls[i].op) = "POST" =>
           /\ calls[i].sent[1].body.json
           /\ calls[i].sent[1].body.value = calls[i].args[1]
      /\ EndpointMethod(calls[i].op) # "POST" => calls[i].sent[1].body = NoBody

\* C18 witness: updateRepository has sent its record, unchanged, to POST
\* /update-repository and has returned.
C18_Witness ==
  \E i \in DOMAIN calls :
    /\ calls[i].op = "updateRepository" /\ Done(i)
    /\ calls[i].sent[1] =
         [method |-> "POST", url |-> "http://localhost:8000/github/update-repository",
          body |-> [json |-> TRUE,
                    value |-> Obj([repo_name |-> Str("r1"),
                                   source_dir |-> Str("./generated")])]]
    /\ calls[i].result.returned

(***************************************************************************)
(* Properties of a session: calls made one after the other.                *)
(***************************************************************************)
\* Call k sends a configure request: configure, and validateToken, which
\* probes the configure endpoint.
Configures(k) == calls[k].op \in {"configure", "validateToken"}
\* No configure request was sent between calls c and g.
NoConfigureBetween(c, g) == \A k \in (c + 1)..(g - 1) : ~Configures(k)
\* configure call c returned a body that reports success.
ConfigureSucceeded(c) ==
  /\ calls[c].op = "configure" /\ Done(c)
  /\ calls[c].result.returned
  /\ GetProp(calls[c].result.value, "success") = Bool(TRUE)
StatusDone(g) == calls[g].op = "getStatus" /\ Done(g)
ConfiguredOf(g) == GetProp(calls[g].result.value, "configured")

\* configure call c was given a non-empty token and username.
SetsCredentials(c) ==
  /\ calls[c].op = "configure"
  /\ GetProp(calls[c].args[1], "token") # Str("")
  /\ GetProp(calls[c].args[1], "username") # Str("")

\* C8, as claimed: after a configure call with a token and username that the
\* backend answered with success, and with no configure call in between, a
\* later getStatus returns configured = true and the username that was
\* configured.
C8_AsClaimed ==
  \A c, g \in DOMAIN calls :
    (c < g /\ SetsCredentials(c) /\ ConfigureSucceeded(c) /\ StatusDone(g)
       /\ NoConfigureBetween(c, g)) =>
      /\ ConfiguredOf(g) = Bool(TRUE)
      /\ GetProp(calls[g].result.value, "username") = GetProp(calls[c].args[1], "username")

\* C8, amended: after a configure call with a token and username that the
\* backend answered with success, and with no configure call in between, a
\* later getStatus whose exchange ends with a 2xx JSON response returns
\* configured = true and the username that was configured; when its exchange
\* fails it returns configured = false.
C8_StatusAfterConfigure ==
  \A c, g \in DOMAIN calls :
    (c < g /\ SetsCredentials(c) /\ ConfigureSucceeded(c) /\ StatusDone(g)
       /\ NoConfigureBetween(c, g)) =>
      /\ (Got2xx(g) /\ GotJson(g)) =>
           /\ ConfiguredOf(g) = Bool(TRUE)
           /\ GetProp(calls[g].result.value, "username")
                = GetProp(calls[c].args[1], "username")
           /\ GetProp(calls[g].result.value, "user")
                = GetProp(calls[c].args[1], "username")
      /\ ~(Got2xx(g) /\ GotJson(g)) => ConfiguredOf(g) = Bool(FALSE)

\* C8 witness: configure({token: "t1", username: "u1"}) returned success and
\* the getStatus after it returned configured = true for u1.
C8_Witness ==
  \E c, g \in DOMAIN calls :
    /\ c < g /\ ConfigureSucceeded(c) /\ StatusDone(g) /\ NoConfigureBetween(c, g)
    /\ calls[c].args[1] = Obj([token |-> Str("t1"), username |-> Str("u1")])
    /\ ConfiguredOf(g) = Bool(TRUE)
    /\ GetProp(calls[g].result.value, "username") = Str("u1")

\* C9, as claimed: two getStatus calls in sequence with no configure call in
\* between return the same configured value.
C9_AsClaimed ==
  \A g1, g2 \in DOMAIN calls :
    (g1 < g2 /\ StatusDone(g1) /\ StatusDone(g2) /\ NoConfigureBetween(g1, g2)) =>
      ConfiguredOf(g1) = ConfiguredOf(g2)

\* C9, amended: two getStatus calls in sequence with no configure call in
\* between return the same configured value when the exchanges of both end
\* with a 2xx JSON response; a getStatus whose exchange fails returns
\* configured = false, whatever the backend's configuration is.
C9_StatusIsRepeatable ==
  \A g1, g2 \in DOMAIN calls :
    (g1 < g2 /\ StatusDone(g1) /\ StatusDone(g2) /\ NoConfigureBetween(g1, g2)) =>
      /\ (Got2xx(g1) /\ GotJson(g1) /\ Got2xx(g2) /\ GotJson(g2)) =>
           /\ ConfiguredOf(g1) = ConfiguredOf(g2)
           /\ ConfiguredOf(g1).t = "boolean"
      /\ ~(Got2xx(g2) /\ GotJson(g2)) => ConfiguredOf(g2) = Bool(FALSE)
      /\ ~(Got2xx(g1) /\ GotJson(g1)) => ConfiguredOf(g1) = Bool(FALSE)

\* C9 witness: after a successful configure, two getStatus calls in a row
\* both returned configured = true.
C9_Witness ==
  \E g1, g2 \in DOMAIN calls :
    /\ g1 < g2 /\ StatusDone(g1) /\ StatusDone(g2) /\ NoConfigureBetween(g1, g2)
    /\ ConfiguredOf(g1) = Bool(TRUE)
    /\ ConfiguredOf(g2) = Bool(TRUE)

(***************************************************************************)
(* Properties of the page.                                                 *)
(***************************************************************************)
\* The fallback text of each handler that inspects result.success.
HandlerFallback(handler) ==
  CASE handler = "handleConfigure" -> "Configuration failed"
    [] handler = "handleCreateRepository" -> "Failed to create repository"
    [] handler = "handleExtractAndPush" -> "Failed to extract and push code"
    [] handler = "handleDeleteRepository" -> "Failed to delete repository"
    [] OTHER -> ""

\* The exchange of call i has ended with a 2xx response whose body is a JSON
\* object with success = false, and the task that awaits it has not resumed.
LogicalFailure(i) ==
  /\ calls[i].pc = "resume"
  /\ Got2xx(i) /\ GotJson(i)
  /\ GetProp(calls[i].settled.body.value, "success") = Bool(FALSE)

\* C6: a 2xx response whose body has success = false is not raised by the
\* client: the call returns the parsed body.  The handler that awaited the
\* call (handleConfigure, handleCreateRepository, handleExtractAndPush,
\* handleDeleteRepository) then returns without a further call and without
\* setting a success message, and the component instance that started it, as
\* long as it is mounted, shows result.error, or the handler's fallback text
\* when the body has no error, and is no longer loading.
C6_LogicalFailureIsShown ==
  [][\A i \in DOMAIN calls :
       (LogicalFailure(i) /\ calls'[i] # calls[i]) =>
         LET body == calls[i].settled.body.value
             task == tasks[i]
         IN /\ Settle(calls[i].op, calls[i].settled) = Return(body)
            /\ (Len(task.stack) = 1 /\ HandlerFallback(task.stack[1]) # "") =>
                 /\ calls[i].op \in {"configure", "createRepository",
                                     "extractAndPush", "deleteRepository"}
                 /\ tasks'[i] = NoTask
                 /\ calls'[i] = Idle
                 /\ Components'[task.component].success
                      = Components[task.component].success
                 /\ task.live =>
                      /\ Components'[task.component].error
                           = OrElse(GetProp(body, "error"),
                                    Str(HandlerFallback(task.stack[1])))
                      /\ Components'[task.component].error.t = "string"
                      /\ ~Components'[task.component].loading
  ]_vars

\* C6 witness: a handler of GitHubOperations has returned on a result with
\* success = false: the panel shows the result's error and no success message,
\* it is not loading and no call is under way.
C6_Witness ==
  /\ gitHubPage.activeTab = "operations"
  /\ gitHubOperations.error = Str("GitHub API error")
  /\ gitHubOperations.success = Null
  /\ ~gitHubOperations.loading
  /\ \A i \in DOMAIN calls : calls[i] = Idle /\ tasks[i] = NoTask

\* Call i hands a DELETE request to fetch in this step.
DeleteIssued(i) ==
  /\ calls'[i] # calls[i]
  /\ calls'[i].pc = "awaitFetch"
  /\ calls'[i].sent[Len(calls'[i].sent)].method = "DELETE"

\* C11: in the operations panel a repository is deleted only with
\* confirmation.  A click on Delete whose confirmation prompt the user
\* declines issues no request and changes no component state; and every step
\* in which a DELETE request is handed to fetch is a click on Delete, in the
\* row of a listed repository, whose prompt the user accepted: the request is
\* the one DELETE for that repository.
C11_DeleteOnlyWhenConfirmed ==
  [][/\ \A repoName \in RepoNames :
          handleDeleteRepository(repoName, FALSE) =>
            UNCHANGED <<calls, backend, tasks, gitHubPage, gitHubConfig, gitHubOperations>>
     /\ \A i \in DOMAIN calls :
          DeleteIssued(i) =>
            \E repoName \in Listed :
              /\ handleDeleteRepository(repoName, TRUE)
              /\ calls'[i].op = "deleteRepository"
              /\ calls'[i].sent = <<deleteRepositoryFetch(repoName)>>
              /\ tasks'[i].stack = <<"handleDeleteRepository">>
  ]_vars

\* C11 witness: the user has accepted the prompt for the listed repository r1
\* and its DELETE request is on its way; the panel is loading.
C11_Witness ==
  \E i \in DOMAIN calls :
    /\ "r1" \in Listed
    /\ calls[i].op = "deleteRepository" /\ calls[i].pc = "awaitFetch"
    /\ calls[i].sent = <<deleteRepositoryFetch("r1")>>
    /\ tasks[i].stack = <<"handleDeleteRepository">> /\ tasks[i].live
    /\ gitHubOperations.loading

\* The exchange of the listRepositories call i has ended with a 2xx response
\* whose body is a JSON object without a repositories field, and
\* loadRepositories has not resumed.
ListedWithoutField(i) ==
  /\ calls[i].pc = "resume"
  /\ calls[i].op = "listRepositories"
  /\ Got2xx(i) /\ GotJson(i)
  /\ calls[i].settled.body.value.t = "object"
  /\ "repositories" \notin DOMAIN calls[i].settled.body.value.v

\* C12, as claimed: when loadRepositories completes on a response without a
\* repositories field, the list shown by the operations panel (as long as the
\* panel that started the load is mounted) is empty, and no failure occurs:
\* the panel's error message is what it was.
C12_AsClaimed ==
  [][\A i \in DOMAIN calls :
       (ListedWithoutField(i) /\ calls'[i] # calls[i] /\ tasks[i].live) =>
         /\ gitHubOperations'.repositories = Arr(<<>>)
         /\ gitHubOperations'.error = gitHubOperations.error
  ]_vars

\* C14, as claimed: a single click on Quick Extract issues an extract-and-push
\* request with a timestamp-based repository name, the default description
\* and the default file patterns.  A handler runs up to its first await in
\* the step of the click, so the request is handed to fetch in that step.
C14_AsClaimed ==
  [][\A now \in Instants :
       handleQuickExtract(now) =>
         \E i \in DOMAIN calls :
           /\ calls'[i] # calls[i]
           /\ calls'[i].op = "extractAndPush"
           /\ calls'[i].pc = "awaitFetch"
           /\ calls'[i].sent[1].method = "POST"
           /\ calls'[i].sent[1].url = "http://localhost:8000/github/extract-and-push"
           /\ GetProp(calls'[i].sent[1].body.value, "repo_name")
                = Str("ai-generated-" \o FileStamp(now))
           /\ GetProp(calls'[i].sent[1].body.value, "description")
                = Str("AI-generated code from Cube AI System - " \o now)
           /\ GetProp(calls'[i].sent[1].body.value, "include_patterns") = include_patterns
           /\ GetProp(calls'[i].sent[1].body.value, "exclude_patterns") = exclude_patterns
  ]_vars

\* The call that task i awaits has raised, and the task has not resumed.
CallRaised(i) ==
  /\ calls[i].pc = "resume"
  /\ tasks[i].stack # <<>>
  /\ Settle(calls[i].op, calls[i].settled).raised
\* The function of task i that made the call.
Frame(i) == tasks[i].stack[Len(tasks[i].stack)]
\* The text its catch block shows.
CatchMessage(i) ==
  CASE Frame(i) = "loadRepositories" -> "Failed to load repositories"
    [] Frame(i) = "handleDisconnect" -> "Failed to disconnect GitHub"
    [] OTHER -> Settle(calls[i].op, calls[i].settled).error.message
\* The handlers that clear the messages before they make their call.
ClearingHandlers ==
  {"handleConfigure", "handleCreateRepository", "handleExtractAndPush",
   "handleDeleteRepository"}
\* A click invokes at slot i a handler that makes a call.
Clicked(i) ==
  /\ events' = events + 1
  /\ gitHubPage'.activeTab = gitHubPage.activeTab
  /\ tasks[i].stack = <<>>
  /\ tasks'[i].stack # <<>>

\* C19, as claimed, for a handler whose component is still mounted: when the
\* call it made raises, the handler returns and an error message is
\* displayed; the form fields, the repository list, the connection status,
\* the active tab and the success message are not changed, and the handler
\* has removed no success message that was displayed when it was invoked.
C19_AsClaimed ==
  [][\A i \in DOMAIN calls :
       (CallRaised(i) /\ calls'[i] # calls[i] /\ tasks[i].live) =>
         LET c == tasks[i].component IN
         /\ tasks'[i] = NoTask
         /\ Components'[c].error.t = "string"
         /\ gitHubPage' = gitHubPage
         /\ Components'[c] =
              [Components[c] EXCEPT !.error = Components'[c].error,
                                    !.loading = Components'[c].loading]
         /\ tasks[i].cleared = Null
  ]_vars

\* C19, amended: when the call made by handleConfigure, handleDisconnect,
\* handleCreateRepository, handleExtractAndPush, handleDeleteRepository or
\* loadRepositories raises, the handler returns without a further call.  If
\* its component is still mounted it displays an error message (the message
\* of the error; a fixed text in loadRepositories and handleDisconnect) and
\* ends loading, and changes nothing else; if not, it changes nothing.  The
\* step that made the call has set loading and, in the four handlers that
\* clear the messages first, has cleared the error and the success message
\* displayed before; loadRepositories and handleDisconnect leave both.  Form
\* fields, repository list, connection status and active tab are changed by
\* neither step.
C19_FailureIsCaught ==
  [][\A i \in DOMAIN calls :
       /\ (CallRaised(i) /\ calls'[i] # calls[i]) =>
            LET c == tasks[i].component IN
            /\ Frame(i) \in ClearingHandlers \cup {"loadRepositories", "handleDisconnect"}
            /\ tasks' = [tasks EXCEPT ![i] = NoTask]
            /\ calls' = [calls EXCEPT ![i] = Idle]
            /\ backend' = backend
            /\ CatchMessage(i) # ""
            /\ Components' =
                 IF tasks[i].live
                   THEN [Components EXCEPT ![c].error = Str(CatchMessage(i)),
                                           ![c].loading = FALSE]
                   ELSE Components
       /\ Clicked(i) =>
            LET c == tasks'[i].component IN
            /\ tasks'[i].stack[1] \in ClearingHandlers =>
                 Components' = [Components EXCEPT ![c].loading = TRUE,
                                                  ![c].error = Null,
                                                  ![c].success = Null]
            /\ tasks'[i].stack[1] \notin ClearingHandlers =>
                 Components' = [Components EXCEPT ![c].loading = TRUE]
  ]_vars

\* C19 witness: the call of a handler of the operations panel has raised
\* while a repository was listed: the panel shows the error of the failed
\* exchange, it is not loading, and the list is as it was.
C19_Witness ==
  /\ gitHubPage.activeTab = "operations"
  /\ gitHubOperations.error = Str("Failed to fetch")
  /\ gitHubOperations.success = Null
  /\ ~gitHubOperations.loading
  /\ "r1" \in Listed
  /\ \A i \in DOMAIN calls : calls[i] = Idle /\ tasks[i] = NoTask

\* The credentials of a disconnect, and what the component then shows.
BlankCredentials == Obj([token |-> Str(""), username |-> Str("")])
DisconnectedStatus ==
  Obj([configured |-> Bool(FALSE), message |-> Str("GitHub disconnected")])
DisconnectedMessage == Str("GitHub disconnected successfully")

C21_AsClaimed ==
  gitHubPage.activeTab = "operations" => Configured(gitHubPage.githubStatus)

\* Task i is a status check of GitHubConfig whose call has returned
\* configured = true.
StatusCheckSaysConfigured(i) ==
  /\ calls[i].pc = "resume"
  /\ tasks[i].stack # <<>>
  /\ Frame(i) = "checkStatus"
  /\ Configured(Settle(calls[i].op, calls[i].settled).value)

\* C22: inside GitHubPage the step in which a status check of GitHubConfig
\* (on mount, or after a successful configure) resumes with configured = true
\* stores that status in the page and makes 'operations' the active tab, so
\* that GitHubConfig is unmounted in the same step; and in every state with
\* the configuration tab active the status GitHubConfig holds is not
\* configured: its connected view, with Refresh Status and Disconnect, is
\* never on the screen.
C22_ConnectedViewNeverShown ==
  /\ [](gitHubPage.activeTab = "config" => ~Configured(gitHubConfig.status))
  /\ [](~ConnectedView)
  /\ [][\A i \in DOMAIN calls :
          (StatusCheckSaysConfigured(i) /\ tasks'[i] # tasks[i]) =>
            /\ gitHubPage'.activeTab = "operations"
            /\ gitHubPage'.githubStatus = Settle(calls[i].op, calls[i].settled).value
            /\ gitHubConfig' = GitHubConfigState
     ]_vars

\* C22 witness: the user has done nothing and the operations tab is active:
\* the mount-time status check of GitHubConfig returned configured = true and
\* handleConfigChange left the configuration tab.
C22_Witness ==
  /\ events = 0
  /\ gitHubPage.activeTab = "operations"
  /\ Configured(gitHubPage.githubStatus)
  /\ gitHubConfig = GitHubConfigState

\* Task i belongs to the mounted GitHubOperations and its request is in
\* flight.
OperationsRequestInFlight(i) ==
  /\ tasks[i].stack # <<>>
  /\ tasks[i].component = "operations"
  /\ tasks[i].live
  /\ calls[i].pc = "awaitFetch"

\* C23, as claimed: in GitHubOperations, whenever loading is false no request
\* started by the component is in flight.
C23_AsClaimed ==
  (gitHubPage.activeTab = "operations" /\ ~gitHubOperations.loading) =>
    \A i \in DOMAIN calls : ~OperationsRequestInFlight(i)

\* Task i, of the mounted GitHubOperations, resumes with the list its
\* listRepositories request returned.
ListArrives(i) ==
  /\ calls[i].pc = "resume"
  /\ tasks[i].stack # <<>>
  /\ Frame(i) = "loadRepositories"
  /\ tasks[i].live
  /\ calls'[i] # calls[i]

\* C24, as claimed: a late response to an older list request never
\* overwrites the result of a newer one: no list is put on display by a
\* request that a list request issued after it has overtaken.
C24_AsClaimed ==
  [][\A i \in DOMAIN calls :
       (ListArrives(i) /\ tasks[i].overtaken) =>
         gitHubOperations'.repositories = gitHubOperations.repositories
  ]_vars

\* The component shows an error message and a success message.
ShowsBoth(component) == component.error # Null /\ component.success # Null

\* C25, as claimed: in GitHubConfig and in GitHubOperations the error message
\* and the success message are never both non-null.
C25_AsClaimed == ~ShowsBoth(gitHubConfig) /\ ~ShowsBoth(gitHubOperations)

\* The handlers of GitHubOperations that change something on GitHub, and the
\* client method each of them calls.
MutatingHandlers ==
  {"handleCreateRepository", "handleExtractAndPush", "handleDeleteRepository"}
MutatingCall(handler) ==
  CASE handler = "handleCreateRepository" -> "createRepository"
    [] handler = "handleExtractAndPush" -> "extractAndPush"
    [] handler = "handleDeleteRepository" -> "deleteRepository"
\* Task i is a mutating handler and its own call has completed.
MutationCompleted(i) ==
  /\ calls[i].pc = "resume"
  /\ Len(tasks[i].stack) = 1
  /\ tasks[i].stack[1] \in MutatingHandlers
  /\ calls'[i] # calls[i]
\* ... with a result whose success is true.
MutationSucceeded(i) ==
  LET result == Settle(calls[i].op, calls[i].settled)
  IN result.returned /\ GetProp(result.value, "success") = Bool(TRUE)

\* C26: a mutating handler of GitHubOperations (create, extract and push,
\* delete) first hands its own request to fetch and nothing else.  In the
\* step in which it resumes with a result whose success is true it hands one
\* listRepositories request to fetch, its second request, and waits for it;
\* when the call raised or returned another result it ends without a further
\* request.  When the list request has completed the handler ends, so that
\* it has issued exactly one list request, after the mutating response.
C26_OneListAfterSuccess ==
  [][\A i \in DOMAIN calls :
       /\ (Clicked(i) /\ tasks'[i].stack[1] \in MutatingHandlers) =>
            /\ calls'[i].op = MutatingCall(tasks'[i].stack[1])
            /\ Len(calls'[i].sent) = 1
            /\ calls'[i].sent[1] # listRepositoriesFetch
       /\ (MutationCompleted(i) /\ MutationSucceeded(i)) =>
            /\ tasks'[i].stack = Append(tasks[i].stack, "loadRepositories")
            /\ calls'[i].pc = "awaitFetch"
            /\ calls'[i].op = "listRepositories"
            /\ calls'[i].sent = Append(calls[i].sent, listRepositoriesFetch)
            /\ Len(calls'[i].sent) = 2
       /\ (MutationCompleted(i) /\ ~MutationSucceeded(i)) =>
            /\ tasks'[i] = NoTask
            /\ calls'[i] = Idle
       /\ (/\ Len(tasks[i].stack) = 2
           /\ tasks[i].stack[1] \in MutatingHandlers
           /\ calls'[i] # calls[i]
           /\ calls[i].pc = "resume") =>
            /\ tasks[i].stack[2] = "loadRepositories"
            /\ Len(calls[i].sent) = 2
            /\ tasks'[i] = NoTask
            /\ calls'[i] = Idle
  ]_vars

\* C26 witness: the delete of r1 returned success and the handler waits for
\* the one list request it has made after it.
C26_Witness ==
  \E i \in DOMAIN calls :
    /\ tasks[i].stack = <<"handleDeleteRepository", "loadRepositories">>
    /\ calls[i].pc = "awaitFetch"
    /\ calls[i].sent = <<deleteRepositoryFetch("r1"), listRepositoriesFetch>>
    /\ gitHubOperations.success = Str("Repository \"r1\" deleted successfully!")

\* No request is under way and no handler waits.
Settled == \A i \in DOMAIN calls : calls[i] = Idle /\ tasks[i] = NoTask

\* C27: when every request that was issued completes, loading becomes false
\* again in each component, whichever way the handlers' calls end; and when
\* all requests have completed and all handlers have ended, loading is false
\* in both components.
C27_LoadingEnds ==
  /\ gitHubConfig.loading ~> ~gitHubConfig.loading
  /\ gitHubOperations.loading ~> ~gitHubOperations.loading
  /\ [](Settled => ~gitHubConfig.loading /\ ~gitHubOperations.loading)

\* C27 witness: a create whose call returned success = false has ended: the
\* panel shows the error and is not loading.
C27_Witness ==
  /\ Settled
  /\ gitHubPage.activeTab = "operations"
  /\ gitHubOperations.error = Str("GitHub API error")
  /\ gitHubOperations.repoName = "r1"
  /\ ~gitHubOperations.loading

\* C28: the form handlers issue no request on blank required input.
\* handleConfigure called with a token or a username that is empty after
\* trimming, and handleCreateRepository and handleExtractAndPush called with
\* a repository name that is empty after trimming, set the error message and
\* change nothing else: no request, no handler left waiting, loading, the
\* success message, the fields and the other components as they were.  With
\* the required fields filled in, each of them hands a request to fetch.
C28_BlankInputIsRefused ==
  [][/\ handleConfigureCalled =>
          IF Blank(gitHubConfig.token) \/ Blank(gitHubConfig.username)
            THEN /\ gitHubConfig' =
                      [gitHubConfig EXCEPT
                         !.error = Str("Please provide both token and username")]
                 /\ UNCHANGED <<calls, backend, tasks, gitHubPage, gitHubOperations>>
            ELSE \E i \in DOMAIN calls : calls'[i].pc = "awaitFetch"
     /\ handleCreateRepositoryCalled =>
          IF Blank(gitHubOperations.repoName)
            THEN /\ gitHubOperations' =
                      [gitHubOperations EXCEPT
                         !.error = Str("Please provide a repository name")]
                 /\ UNCHANGED <<calls, backend, tasks, gitHubPage, gitHubConfig>>
            ELSE \E i \in DOMAIN calls : calls'[i].pc = "awaitFetch"
     /\ (\E now \in Instants : handleExtractAndPushCalled(now)) =>
          IF Blank(gitHubOperations.extractRepoName)
            THEN /\ gitHubOperations' =
                      [gitHubOperations EXCEPT
                         !.error = Str("Please provide a repository name")]
                 /\ UNCHANGED <<calls, backend, tasks, gitHubPage, gitHubConfig>>
            ELSE \E i \in DOMAIN calls : calls'[i].pc = "awaitFetch"
  ]_vars

\* C28 witness: handleConfigure was called with a username of one space
\* while a success message was on display: the error is set, the success
\* message and the fields are as they were, nothing is loading and no
\* request has been made.
C28_Witness ==
  /\ gitHubConfig.error = Str("Please provide both token and username")
  /\ gitHubConfig.token = "r1" /\ gitHubConfig.username = " "
  /\ gitHubConfig.success = Str("earlier message")
  /\ ~gitHubConfig.loading
  /\ events = 1
  /\ Settled

\* Call i is started in this step as a create, extract-and-push or delete.
MutationStarts(i) ==
  /\ calls[i].pc = "idle"
  /\ calls'[i].pc = "awaitFetch"
  /\ calls'[i].op \in {"createRepository", "extractAndPush", "deleteRepository"}

\* C29: every step in which the operations panel starts a create,
\* extract-and-push or delete request is a click in the panel of the active
\* operations tab, taken in a state where the githubStatus given to
\* GitHubOperations has configured = true; in a state where it is false no
\* step starts such a request.
C29_MutationsNeedConfigured ==
  [][\A i \in DOMAIN calls :
       MutationStarts(i) =>
         /\ gitHubPage.activeTab = "operations"
         /\ Configured(gitHubPage.githubStatus)
         /\ gitHubPage' = gitHubPage
         /\ tasks'[i].component = "operations"
         /\ tasks'[i].stack[1] \in MutatingHandlers
         /\ events' = events + 1
  ]_vars

\* C29 witness: with githubStatus.configured = true the user has typed a
\* name and clicked Create Repository, and the request is on its way.
C29_Witness ==
  \E i \in DOMAIN calls :
    /\ tasks[i].stack = <<"handleCreateRepository">>
    /\ calls[i].pc = "awaitFetch"
    /\ calls[i].op = "createRepository"
    /\ Configured(gitHubPage.githubStatus)
    /\ gitHubPage.activeTab = "operations"
    /\ gitHubOperations.loading

====
